---- MODULE Spec2Model ----
(***************************************************************************)
(* A model of the indicator / returns engine and the portfolio aggregator  *)
(* of the stocks package (analysis/*.py, utils/utils.py, stock_data.py,    *)
(* portfolio.py).                                                          *)
(*                                                                         *)
(* Tables (pandas.DataFrame) are sequences of columns [name, vals]; every  *)
(* column name is a tuple (<<"Close">>, <<"SMA", 3>>, <<"SMA", 3, "Close">>*)
(* for "SMA_3(Close)").  Floating point cells are exact rationals <<n, d>> *)
(* in lowest terms with d > 0; d = 0 encodes the IEEE specials: <<0, 0>>   *)
(* is NaN (pandas' null), <<1, 0>> is +inf and <<-1, 0>> is -inf.          *)
(***************************************************************************)
EXTENDS Integers, Sequences, FiniteSets, TLC

\* ------------------------------------------------------------------------
\* Exact arithmetic on cells.
\* ------------------------------------------------------------------------

Abs(x) == IF x < 0 THEN -x ELSE x

Sign(x) == IF x < 0 THEN -1 ELSE IF x = 0 THEN 0 ELSE 1

RECURSIVE GCD(_, _)
GCD(a, b) == IF b = 0 THEN a ELSE GCD(b, a % b)

\* n/d in lowest terms, d # 0.
Norm(n, d) ==
    LET g == GCD(Abs(n), Abs(d))
        s == IF d < 0 THEN -1 ELSE 1
    IN  <<s * (n \div g), s * (d \div g)>>

NaN == <<0, 0>>

PosInf == <<1, 0>>

NegInf == <<-1, 0>>

R(n) == <<n, 1>>

IsNull(x) == x = NaN

IsFinite(x) == x[2] # 0

\* IEEE addition.
RAdd(a, b) ==
    IF IsNull(a) \/ IsNull(b) THEN NaN
    ELSE IF ~IsFinite(a) /\ ~IsFinite(b) THEN (IF a = b THEN a ELSE NaN)
    ELSE IF ~IsFinite(a) THEN a
    ELSE IF ~IsFinite(b) THEN b
    ELSE Norm(a[1] * b[2] + b[1] * a[2], a[2] * b[2])

RNeg(a) == <<-a[1], a[2]>>

RSub(a, b) == RAdd(a, RNeg(b))

\* IEEE multiplication.
RMul(a, b) ==
    IF IsNull(a) \/ IsNull(b) THEN NaN
    ELSE IF ~IsFinite(a) \/ ~IsFinite(b)
         THEN (IF a[1] = 0 \/ b[1] = 0 THEN NaN
               ELSE <<Sign(a[1]) * Sign(b[1]), 0>>)
    ELSE Norm(a[1] * b[1], a[2] * b[2])

\* numpy division: x/0 is +-inf, 0/0 is NaN, no exception.
RDiv(a, b) ==
    IF IsNull(a) \/ IsNull(b) THEN NaN
    ELSE IF ~IsFinite(b) THEN (IF IsFinite(a) THEN R(0) ELSE NaN)
    ELSE IF ~IsFinite(a)
         THEN <<(IF b[1] < 0 THEN -1 ELSE 1) * a[1], 0>>
    ELSE IF b[1] = 0 THEN <<Sign(a[1]), 0>>
    ELSE Norm(a[1] * b[2], a[2] * b[1])

\* a > b as floats compare: false when either side is NaN.
RGt(a, b) ==
    IF IsNull(a) \/ IsNull(b) THEN FALSE
    ELSE IF ~IsFinite(a) THEN a = PosInf /\ b # PosInf
    ELSE IF ~IsFinite(b) THEN b = NegInf
    ELSE a[1] * b[2] > b[1] * a[2]

RECURSIVE RSum(_)
RSum(s) == IF s = <<>> THEN R(0) ELSE RAdd(s[1], RSum(Tail(s)))

\* Python's builtin max(0, x): x when x > 0, else the first argument.
PyMax0(x) == IF RGt(x, R(0)) THEN x ELSE R(0)

\* floor of the finite rational n/d (d > 0).
Floor(n, d) == n \div d

\* round(x, 2): to the nearest hundredth, ties to even.
Round2(x) ==
    IF ~IsFinite(x) THEN x
    ELSE LET n == 100 * x[1]
             d == x[2]
             f == Floor(n, d)
             r2 == 2 * (n - f * d)
             q == IF r2 > d THEN f + 1
                  ELSE IF r2 < d THEN f
                  ELSE IF f % 2 = 0 THEN f ELSE f + 1
         IN  Norm(q, 100)

\* ------------------------------------------------------------------------
\* Tables: a sequence of columns, each [name |-> tuple, vals |-> sequence].
\* ------------------------------------------------------------------------

ColNames(df) == [k \in 1..Len(df) |-> df[k].name]

HasCol(df, c) == \E k \in 1..Len(df) : df[k].name = c

Col(df, c) == df[CHOOSE k \in 1..Len(df) : df[k].name = c].vals

NRows(df) == IF df = <<>> THEN 0 ELSE Len(df[1].vals)

\* df[c] = vals: replaces the column in place, or appends a new last column.
SetCol(df, c, vals) ==
    IF HasCol(df, c)
    THEN [k \in 1..Len(df) |-> IF df[k].name = c THEN [name |-> c, vals |-> vals]
                                ELSE df[k]]
    ELSE Append(df, [name |-> c, vals |-> vals])

\* df.rename(columns={a: b})
RenameCol(df, a, b) ==
    [k \in 1..Len(df) |-> IF df[k].name = a THEN [name |-> b, vals |-> df[k].vals]
                           ELSE df[k]]

\* df.drop(c, axis=1)
DropCol(df, c) == SelectSeq(df, LAMBDA col : col.name # c)

\* The rows idx[1], idx[2], ... of df, in that order.
TakeRows(df, idx) ==
    [k \in 1..Len(df) |->
        [name |-> df[k].name,
         vals |-> [j \in 1..Len(idx) |-> df[k].vals[idx[j]]]]]

\* The members of the set of integers S in ascending order.
RECURSIVE SortedInts(_)
SortedInts(S) ==
    IF S = {} THEN <<>>
    ELSE LET m == CHOOSE x \in S : \A y \in S : x <= y
         IN  <<m>> \o SortedInts(S \ {m})

Range(xs) == {xs[k] : k \in 1..Len(xs)}

RECURSIVE Flatten(_)
Flatten(ss) == IF ss = <<>> THEN <<>> ELSE ss[1] \o Flatten(Tail(ss))

\* ------------------------------------------------------------------------
\* utils.add_year_month_quarter.  A Date is the integer yyyymmdd.
\* ------------------------------------------------------------------------

YearOf(d) == d \div 10000

MonthOf(d) == (d \div 100) % 100

DayOf(d) == d % 100

\* np.ceil(month / 3)
QuarterOf(m) == (m + 2) \div 3

\* The label f"{year}-Q{quarter}" as the pair <<year, quarter>>.
QLabel(y, q) == <<y, q>>

add_year_month_quarter(df_init, date_col) ==
    LET dates == Col(df_init, date_col)
        n == Len(dates)
        df1 == SetCol(df_init, <<"year">>, [i \in 1..n |-> YearOf(dates[i])])
        df2 == SetCol(df1, <<"month">>, [i \in 1..n |-> MonthOf(dates[i])])
        df3 == SetCol(df2, <<"quarter">>,
                      [i \in 1..n |-> QuarterOf(Col(df2, <<"month">>)[i])])
    IN  SetCol(df3, <<"Q">>,
               [i \in 1..n |-> QLabel(Col(df3, <<"year">>)[i],
                                      Col(df3, <<"quarter">>)[i])])

\* ------------------------------------------------------------------------
\* analysis/returns.py: calculate_grouped_returns.
\* ------------------------------------------------------------------------

\* One grouping value as a sequence of integers (the Q label has two parts).
KeyPart(c, v) == IF c = <<"Q">> THEN v ELSE <<v>>

\* The names used as group labels, in the order of Python's str.
LabelsInOrder ==
    << <<"AnnualReturns">>, <<"Close">>, <<"DailyReturns">>, <<"Date">>,
       <<"Dividends">>, <<"FracDividends">>, <<"MonthlyReturns">>, <<"Q">>,
       <<"QuarterlyReturns">>, <<"Returns">>, <<"k">>, <<"month">>,
       <<"quarter">>, <<"year">>, <<"zz">> >>

LabelRank(name) == CHOOSE r \in 1..Len(LabelsInOrder) : LabelsInOrder[r] = name

\* get_grouper: a list of keys as long as the table, not all of them
\* columns, is taken as one array of labels, the label of row i being
\* group_cols[i].
KeysAreLabels(df, group_cols) ==
    /\ Len(group_cols) = NRows(df)
    /\ \E k \in 1..Len(group_cols) : ~HasCol(df, group_cols[k])

\* The groupby key of row i: its label, or the composite of its values of
\* the grouping columns.
GroupKey(df, group_cols, i) ==
    IF KeysAreLabels(df, group_cols) THEN <<LabelRank(group_cols[i])>>
    ELSE Flatten([k \in 1..Len(group_cols) |->
                     KeyPart(group_cols[k], Col(df, group_cols[k])[i])])

RECURSIVE LexLess(_, _)
LexLess(a, b) ==
    IF a = <<>> THEN b # <<>>
    ELSE IF b = <<>> THEN FALSE
    ELSE IF a[1] # b[1] THEN a[1] < b[1]
    ELSE LexLess(Tail(a), Tail(b))

\* groupby sorts the groups by key.
RECURSIVE SortedKeys(_)
SortedKeys(S) ==
    IF S = {} THEN <<>>
    ELSE LET m == CHOOSE x \in S : \A y \in S \ {x} : LexLess(x, y)
         IN  <<m>> \o SortedKeys(S \ {m})

\* The row numbers of the group with key k, in row order.
GroupRows(df, group_cols, k) ==
    SortedInts({i \in 1..NRows(df) : GroupKey(df, group_cols, i) = k})

\* agg 'first' / 'last': the first / last non-null value of the group.
AggFirst(vals, idx) ==
    LET ok == SelectSeq(idx, LAMBDA i : ~IsNull(vals[i]))
    IN  IF ok = <<>> THEN NaN ELSE vals[ok[1]]

AggLast(vals, idx) ==
    LET ok == SelectSeq(idx, LAMBDA i : ~IsNull(vals[i]))
    IN  IF ok = <<>> THEN NaN ELSE vals[ok[Len(ok)]]

\* Mutant of AggLastDate: the Date of the group's first row.
AggLastDate_first(dates, idx) == dates[idx[1]]

\* agg 'last' on Date (never null): the Date of the group's last row.
AggLastDate(dates, idx) == dates[idx[Len(idx)]]

\* df.groupby(group_cols).agg(...) with the returns column: one record
\* [date_last, ret] per group, in key order.
GroupedTable(df, price_col, group_cols) ==
    LET keys == SortedKeys({GroupKey(df, group_cols, i) : i \in 1..NRows(df)})
    IN  [g \in 1..Len(keys) |->
            LET idx == GroupRows(df, group_cols, keys[g])
                price_first == AggFirst(Col(df, price_col), idx)
                price_last == AggLast(Col(df, price_col), idx)
            IN  [date_last |-> AggLastDate(Col(df, <<"Date">>), idx),
                 ret |-> RDiv(RSub(price_last, price_first), price_first)]]

\* The left merge on DateCol = date_last: every left row once per matching
\* group (in group order), or once with a null when no group matches.  The
\* result is the sequence of pairs <<left row, value>>.
MergeLeft(dates, grouped) ==
    Flatten([i \in 1..Len(dates) |->
        LET hit == SelectSeq([g \in 1..Len(grouped) |-> g],
                             LAMBDA g : grouped[g].date_last = dates[i])
        IN  IF hit = <<>> THEN << <<i, NaN>> >>
            ELSE [j \in 1..Len(hit) |-> <<i, grouped[hit[j]].ret>>]])

\* The merged table: the left rows of merged with the returns column.
MergedTable(df_in, new_col_name, merged) ==
    SetCol(TakeRows(df_in, [j \in 1..Len(merged) |-> merged[j][1]]),
           new_col_name, [j \in 1..Len(merged) |-> merged[j][2]])

calculate_grouped_returns(df_in, new_col_name, price_col, group_cols) ==
    MergedTable(df_in, new_col_name,
                MergeLeft(Col(df_in, <<"Date">>),
                          GroupedTable(df_in, price_col, group_cols)))

calculate_monthly_returns(df_in, price_col) ==
    calculate_grouped_returns(df_in, <<"MonthlyReturns">>, price_col,
                              << <<"year">>, <<"month">> >>)

calculate_quarterly_returns(df_in, price_col) ==
    calculate_grouped_returns(df_in, <<"QuarterlyReturns">>, price_col,
                              << <<"Q">> >>)

calculate_annual_returns(df_in, price_col) ==
    calculate_grouped_returns(df_in, <<"AnnualReturns">>, price_col,
                              << <<"year">> >>)

\* ------------------------------------------------------------------------
\* utils.check_and_convert_value_to_list.  A Python value is a record
\* tagged by its type ty: a "str" with the name tuple s, an "int" with the
\* integer n, or a "list" with the sequence xs of element values.
\* ------------------------------------------------------------------------

PyStr(s) == [ty |-> "str", s |-> s]

PyInt(n) == [ty |-> "int", n |-> n]

PyList(xs) == [ty |-> "list", xs |-> xs]

\* Mutant of check_and_convert_value_to_list: only the first value of a list
\* is tested.
check_and_convert_value_to_list_first(val_or_list, expected_type) ==
    IF val_or_list.ty = "list"
    THEN IF val_or_list.xs # <<>> /\ val_or_list.xs[1].ty # expected_type
         THEN [err |-> TRUE, val |-> <<>>]
         ELSE [err |-> FALSE, val |-> val_or_list.xs]
    ELSE IF val_or_list.ty # expected_type
         THEN [err |-> TRUE, val |-> <<>>]
         ELSE [err |-> FALSE, val |-> <<val_or_list>>]

\* Returns [err, val]: err is TRUE when ValueError is raised, else val is
\* the list of values.
check_and_convert_value_to_list(val_or_list, expected_type) ==
    IF val_or_list.ty = "list"
    THEN IF \E k \in 1..Len(val_or_list.xs) : val_or_list.xs[k].ty # expected_type
         THEN [err |-> TRUE, val |-> <<>>]
         ELSE [err |-> FALSE, val |-> val_or_list.xs]
    ELSE IF val_or_list.ty # expected_type
         THEN [err |-> TRUE, val |-> <<>>]
         ELSE [err |-> FALSE, val |-> <<val_or_list>>]

\* The outcome of a call: the returned table, or an exception.
Ok(df) == [kind |-> "ok", df |-> df]

Raised == [kind |-> "error", df |-> <<>>]

NoResult == [kind |-> "none", df |-> <<>>]

\* The raw values of a checked list.
Raw(xs) == [k \in 1..Len(xs) |-> IF xs[k].ty = "str" THEN xs[k].s ELSE xs[k].n]

\* ------------------------------------------------------------------------
\* Unbounded exact arithmetic for the exponential averages, whose values
\* have denominators beyond the machine integers.  A natural number is the
\* sequence of its base-10000 digits, least significant first, without
\* leading zeros (<<>> is 0); an integer is [s |-> sign, m |-> magnitude];
\* a cell is [n |-> integer, d |-> natural], a fraction that need not be in
\* lowest terms, and d = 0 encodes NaN.
\* ------------------------------------------------------------------------

Base == 10 ^ 4

RECURSIVE NFromInt(_)
NFromInt(n) == IF n = 0 THEN <<>> ELSE <<n % Base>> \o NFromInt(n \div Base)

Rest(a) == IF a = <<>> THEN <<>> ELSE Tail(a)

Low(a) == IF a = <<>> THEN 0 ELSE a[1]

RECURSIVE NAddC(_, _, _)
NAddC(a, b, c) ==
    IF a = <<>> /\ b = <<>> THEN NFromInt(c)
    ELSE LET x == Low(a) + Low(b) + c
         IN  <<x % Base>> \o NAddC(Rest(a), Rest(b), x \div Base)

NAdd(a, b) == NAddC(a, b, 0)

RECURSIVE Strip(_)
Strip(a) ==
    IF a = <<>> THEN <<>>
    ELSE IF a[Len(a)] = 0 THEN Strip(SubSeq(a, 1, Len(a) - 1))
    ELSE a

\* a - b - c for a >= b + c, digit by digit with borrow c.
RECURSIVE NSubC(_, _, _)
NSubC(a, b, c) ==
    IF a = <<>> THEN <<>>
    ELSE LET x == a[1] - Low(b) - c
         IN  IF x < 0 THEN <<x + Base>> \o NSubC(Tail(a), Rest(b), 1)
             ELSE <<x>> \o NSubC(Tail(a), Rest(b), 0)

NSub(a, b) == Strip(NSubC(a, b, 0))

\* a < b
RECURSIVE NLessFrom(_, _, _)
NLessFrom(a, b, k) ==
    IF k = 0 THEN FALSE
    ELSE IF a[k] # b[k] THEN a[k] < b[k]
    ELSE NLessFrom(a, b, k - 1)

NLess(a, b) ==
    IF Len(a) # Len(b) THEN Len(a) < Len(b) ELSE NLessFrom(a, b, Len(a))

RECURSIVE NMulDigit(_, _, _)
NMulDigit(a, x, c) ==
    IF a = <<>> THEN NFromInt(c)
    ELSE LET y == a[1] * x + c
         IN  <<y % Base>> \o NMulDigit(Tail(a), x, y \div Base)

RECURSIVE NMul(_, _)
NMul(a, b) ==
    IF a = <<>> \/ b = <<>> THEN <<>>
    ELSE LET hi == NMul(a, Tail(b))
         IN  NAdd(Strip(NMulDigit(a, b[1], 0)),
                  IF hi = <<>> THEN <<>> ELSE <<0>> \o hi)

ZFromInt(n) == [s |-> Sign(n), m |-> NFromInt(Abs(n))]

ZNeg(a) == [s |-> -a.s, m |-> a.m]

ZAdd(a, b) ==
    IF a.s = 0 THEN b
    ELSE IF b.s = 0 THEN a
    ELSE IF a.s = b.s THEN [s |-> a.s, m |-> NAdd(a.m, b.m)]
    ELSE IF a.m = b.m THEN [s |-> 0, m |-> <<>>]
    ELSE IF NLess(a.m, b.m) THEN [s |-> b.s, m |-> NSub(b.m, a.m)]
    ELSE [s |-> a.s, m |-> NSub(a.m, b.m)]

ZMul(a, b) == [s |-> a.s * b.s, m |-> NMul(a.m, b.m)]

\* The integer a times the natural number m.
ZScale(a, m) ==
    IF m = <<>> THEN [s |-> 0, m |-> <<>>] ELSE [s |-> a.s, m |-> NMul(a.m, m)]

QNaN == [n |-> ZFromInt(0), d |-> <<>>]

QIsNull(a) == a.d = <<>>

\* The cell <<n, d>> as a fraction (the infinities do not occur as inputs).
ToBig(x) == IF x[2] = 0 THEN QNaN ELSE [n |-> ZFromInt(x[1]), d |-> NFromInt(x[2])]

QInt(n) == [n |-> ZFromInt(n), d |-> <<1>>]

QAdd(a, b) ==
    IF QIsNull(a) \/ QIsNull(b) THEN QNaN
    ELSE IF a.d = b.d THEN [n |-> ZAdd(a.n, b.n), d |-> a.d]
    ELSE [n |-> ZAdd(ZScale(a.n, b.d), ZScale(b.n, a.d)), d |-> NMul(a.d, b.d)]

QNeg(a) == [n |-> ZNeg(a.n), d |-> a.d]

QSub(a, b) == QAdd(a, QNeg(b))

QMul(a, b) ==
    IF QIsNull(a) \/ QIsNull(b) THEN QNaN
    ELSE [n |-> ZMul(a.n, b.n), d |-> NMul(a.d, b.d)]

\* a / b; b = 0 gives NaN (it does not occur: the weights are positive).
QDiv(a, b) ==
    IF QIsNull(a) \/ QIsNull(b) \/ b.n.s = 0 THEN QNaN
    ELSE [n |-> [s |-> a.n.s * b.n.s, m |-> NMul(a.n.m, b.d)],
          d |-> NMul(a.d, b.n.m)]

\* Equality of the values of two cells (NaN = NaN as for a null test).
QEq(a, b) ==
    IF QIsNull(a) \/ QIsNull(b) THEN QIsNull(a) /\ QIsNull(b)
    ELSE ZScale(a.n, b.d) = ZScale(b.n, a.d)

\* ------------------------------------------------------------------------
\* analysis/moving_average.py
\* ------------------------------------------------------------------------

\* Mutant of MAName: the suffix is always appended.
MAName_suffixed(kind, w, col, suffixed) == <<kind, w, col>>

\* f"SMA_{w}" / f"EMA_{w}", with the suffix f"({col})" when suffixed.
MAName(kind, w, col, suffixed) ==
    IF suffixed THEN <<kind, w, col>> ELSE <<kind, w>>

\* Mutant of rolling_mean: min_periods = 1, the mean of a partial window.
rolling_mean_minp1(xs, w) ==
    [t \in 1..Len(xs) |->
        LET lo == IF t - w + 1 < 1 THEN 1 ELSE t - w + 1
            win == SelectSeq(SubSeq(xs, lo, t), LAMBDA x : ~IsNull(x))
        IN  IF Len(win) > 0 THEN RDiv(RSum(win), R(Len(win))) ELSE NaN]

\* Series.rolling(window=w).mean() for w >= 0 (min_periods = w): the mean of
\* the window's values when all w of them are there and non-null, else null.
rolling_mean(xs, w) ==
    [t \in 1..Len(xs) |->
        LET lo == IF t - w + 1 < 1 THEN 1 ELSE t - w + 1
            win == SelectSeq(SubSeq(xs, lo, t), LAMBDA x : ~IsNull(x))
        IN  IF Len(win) >= w /\ Len(win) > 0
            THEN RDiv(RSum(win), R(Len(win)))
            ELSE NaN]

\* Series.ewm(span=w).mean() for w >= 1, pandas' defaults (adjust=True,
\* ignore_na=False, min_periods=0).  The state after row t is
\* [weighted, old_wt, out]; xs are fractions.
RECURSIVE ewm_state(_, _, _)
ewm_state(xs, w, t) ==
    IF t = 1
    THEN [weighted |-> xs[1], old_wt |-> QInt(1), out |-> <<xs[1]>>]
    ELSE LET p == ewm_state(xs, w, t - 1)
             cur == xs[t]
             old_wt_factor == [n |-> ZFromInt(w - 1), d |-> NFromInt(w + 1)]
             new_wt == QInt(1)
             decayed == QMul(p.old_wt, old_wt_factor)
             q == IF ~QIsNull(p.weighted)
                  THEN IF ~QIsNull(cur)
                       THEN [weighted |->
                                QDiv(QAdd(QMul(decayed, p.weighted),
                                          QMul(new_wt, cur)),
                                     QAdd(decayed, new_wt)),
                             old_wt |-> QAdd(decayed, new_wt)]
                       ELSE [weighted |-> p.weighted, old_wt |-> decayed]
                  ELSE [weighted |-> cur, old_wt |-> p.old_wt]
         IN  [weighted |-> q.weighted, old_wt |-> q.old_wt,
              out |-> Append(p.out, q.weighted)]

\* Mutant of ewm_mean: min_periods = 2, the first row is null.
ewm_mean_minp2(xs, w) ==
    IF xs = <<>> THEN <<>>
    ELSE LET out == ewm_state(xs, w, Len(xs)).out
         IN  [t \in 1..Len(out) |-> IF t = 1 THEN QNaN ELSE out[t]]

\* Mutant of ewm_mean: adjust=False, the recurrence with the fixed factor
\* alpha = 2 / (w + 1) (for series without nulls).
RECURSIVE ewm_mean_noadjust(_, _)
ewm_mean_noadjust(xs, w) ==
    IF Len(xs) <= 1 THEN xs
    ELSE LET prev == ewm_mean_noadjust(SubSeq(xs, 1, Len(xs) - 1), w)
             alpha == [n |-> ZFromInt(2), d |-> NFromInt(w + 1)]
         IN  Append(prev, QAdd(QMul(alpha, xs[Len(xs)]),
                               QMul(QSub(QInt(1), alpha), prev[Len(prev)])))

ewm_mean(xs, w) == IF xs = <<>> THEN <<>> ELSE ewm_state(xs, w, Len(xs)).out

\* The (col, w) pairs in the order of the two nested loops.
LoopPairs(from_cols, windows) ==
    Flatten([c \in 1..Len(from_cols) |->
                [k \in 1..Len(windows) |-> <<from_cols[c], windows[k]>>]])

RECURSIVE sma_loop(_, _, _)
sma_loop(df, pairs, suffixed) ==
    IF pairs = <<>> THEN df
    ELSE LET col == pairs[1][1]
             w == pairs[1][2]
         IN  sma_loop(SetCol(df, MAName("SMA", w, col, suffixed),
                             rolling_mean(Col(df, col), w)),
                      Tail(pairs), suffixed)

\* Returns a result: the table, or the error of the type check or of a
\* negative window.
simple_moving_average(df_in, from_cols, windows) ==
    LET cols == check_and_convert_value_to_list(from_cols, "str")
        wins == check_and_convert_value_to_list(windows, "int")
    IN  IF cols.err \/ wins.err THEN Raised
        ELSE IF cols.val # <<>> /\ \E k \in 1..Len(wins.val) : wins.val[k].n < 0
        THEN Raised
        ELSE Ok(sma_loop(df_in, LoopPairs(Raw(cols.val), Raw(wins.val)),
                         Len(cols.val) > 1))

\* A column of number cells as fractions.
BigCol(xs) == [i \in 1..Len(xs) |-> ToBig(xs[i])]

RECURSIVE ema_loop(_, _, _)
ema_loop(df, pairs, suffixed) ==
    IF pairs = <<>> THEN df
    ELSE LET col == pairs[1][1]
             w == pairs[1][2]
         IN  ema_loop(SetCol(df, MAName("EMA", w, col, suffixed),
                             ewm_mean(BigCol(Col(df, col)), w)),
                      Tail(pairs), suffixed)

\* Returns a result: the table, or the error of the type check or of a
\* span below 1 (ewm: "span must satisfy: span >= 1").
exp_moving_average(df_in, from_cols, windows) ==
    LET cols == check_and_convert_value_to_list(from_cols, "str")
        wins == check_and_convert_value_to_list(windows, "int")
    IN  IF cols.err \/ wins.err THEN Raised
        ELSE IF cols.val # <<>> /\ \E k \in 1..Len(wins.val) : wins.val[k].n < 1
        THEN Raised
        ELSE Ok(ema_loop(df_in, LoopPairs(Raw(cols.val), Raw(wins.val)),
                         Len(cols.val) > 1))

\* ------------------------------------------------------------------------
\* analysis/macd.py
\* ------------------------------------------------------------------------

FastSpan == 12

SlowSpan == 26

SignalSpan == 9

\* Mutant of macd_columns: OSC = DEA - MACD.
macd_columns_swapped(df) ==
    LET n == NRows(df)
        fast == Col(df, <<"EMA", FastSpan>>)
        slow == Col(df, <<"EMA", SlowSpan>>)
        df1 == SetCol(df, <<"MACD">>, [i \in 1..n |-> QSub(fast[i], slow[i])])
        df2 == SetCol(df1, <<"DEA">>, ewm_mean(Col(df1, <<"MACD">>), SignalSpan))
    IN  SetCol(df2, <<"OSC">>,
               [i \in 1..n |-> QSub(Col(df2, <<"DEA">>)[i], Col(df2, <<"MACD">>)[i])])

\* The columns MACD, DEA and OSC set on the table with EMA_12 and EMA_26.
macd_columns(df) ==
    LET n == NRows(df)
        fast == Col(df, <<"EMA", FastSpan>>)
        slow == Col(df, <<"EMA", SlowSpan>>)
        df1 == SetCol(df, <<"MACD">>, [i \in 1..n |-> QSub(fast[i], slow[i])])
        df2 == SetCol(df1, <<"DEA">>, ewm_mean(Col(df1, <<"MACD">>), SignalSpan))
    IN  SetCol(df2, <<"OSC">>,
               [i \in 1..n |-> QSub(Col(df2, <<"MACD">>)[i], Col(df2, <<"DEA">>)[i])])

\* Returns a result: the table with EMA_12, EMA_26, MACD, DEA and OSC, or
\* the error of exp_moving_average or of a missing EMA_12 / EMA_26 column.
macd(df_in, price_column) ==
    LET ema == exp_moving_average(df_in, price_column,
                                  PyList(<<PyInt(FastSpan), PyInt(SlowSpan)>>))
    IN  IF ema.kind # "ok" THEN Raised
        ELSE IF ~HasCol(ema.df, <<"EMA", FastSpan>>)
                \/ ~HasCol(ema.df, <<"EMA", SlowSpan>>)
        THEN Raised
        ELSE Ok(macd_columns(ema.df))

\* ------------------------------------------------------------------------
\* analysis/returns.py: calculate_daily_returns.
\* ------------------------------------------------------------------------

\* Mutant of calculate_daily_returns: the change to the next row's price.
calculate_daily_returns_forward(df_in, price_col) ==
    LET p == Col(df_in, price_col)
    IN  SetCol(df_in, <<"DailyReturns">>,
               [t \in 1..Len(p) |->
                   IF t = 1 THEN NaN ELSE RDiv(RSub(p[t - 1], p[t]), p[t])])

\* df[price_col].diff(1) / df[price_col].shift(1)
calculate_daily_returns(df_in, price_col) ==
    LET p == Col(df_in, price_col)
    IN  SetCol(df_in, <<"DailyReturns">>,
               [t \in 1..Len(p) |->
                   IF t = 1 THEN NaN ELSE RDiv(RSub(p[t], p[t - 1]), p[t - 1])])

\* ------------------------------------------------------------------------
\* stock_data.py: the StockData library.  The data folder is files, a
\* function from the lower-case labels to [exists, data, last_date]; the
\* object is [dir_list, loaded, d_data].
\* ------------------------------------------------------------------------

\* str.lower() and the known symbols.
Lower(l) == IF l = "AA" THEN "aa" ELSE IF l = "BB" THEN "bb" ELSE l

Folders == {"aa", "bb"}

\* The provider's daily history of a symbol: rows <<Date, Close, Dividends>>,
\* one per trading day.
Market(sym) ==
    IF sym = "aa"
    THEN << <<20200130, R(2), R(0)>>, <<20200131, R(3), R(1)>>,
            <<20200401, <<3, 2>>, R(0)>>, <<20210104, R(1), R(0)>> >>
    ELSE << <<20200130, R(1), R(0)>>, <<20200131, R(1), R(0)>>,
            <<20200401, R(2), R(1)>>, <<20210104, R(4), R(0)>> >>

\* yf.Ticker(sym).history(period='max') on trading day today (start = 0), or
\* history(start=start): the rows from start on; [index, df].
History(sym, start, today) ==
    LET rows == SelectSeq(SubSeq(Market(sym), 1, today), LAMBDA r : r[1] >= start)
    IN  [index |-> [i \in 1..Len(rows) |-> rows[i][1]],
         df |-> << [name |-> <<"Close">>, vals |-> [i \in 1..Len(rows) |-> rows[i][2]]],
                   [name |-> <<"Dividends">>,
                    vals |-> [i \in 1..Len(rows) |-> rows[i][3]]] >>]

add_columns_on_import(hist) ==
    LET n == Len(hist.index)
        df0 == SetCol(hist.df, <<"Date">>, hist.index)
        df1 == SetCol(df0, <<"FracDividends">>,
                      [i \in 1..n |-> RDiv(Col(df0, <<"Dividends">>)[i],
                                           Col(df0, <<"Close">>)[i])])
        df2 == add_year_month_quarter(df1, <<"Date">>)
        df3 == calculate_daily_returns(df2, <<"Close">>)
        df4 == calculate_monthly_returns(df3, <<"Close">>)
        df5 == calculate_quarterly_returns(df4, <<"Close">>)
    IN  calculate_annual_returns(df5, <<"Close">>)

\* data['Date'].max()
MaxOf(xs) == CHOOSE m \in Range(xs) : \A x \in Range(xs) : x <= m

\* pd.concat([a, b], axis=0) of two tables with the same columns.
Concat(a, b) ==
    [k \in 1..Len(a) |-> [name |-> a[k].name, vals |-> a[k].vals \o Col(b, a[k].name)]]

SameRow(df, i, j) == \A k \in 1..Len(df) : df[k].vals[i] = df[k].vals[j]

\* df.drop_duplicates(): a row equal in every column to an earlier row goes.
DropDuplicates(df) ==
    TakeRows(df, SelectSeq([i \in 1..NRows(df) |-> i],
                           LAMBDA i : \A j \in 1..(i - 1) : ~SameRow(df, i, j)))

NoFile == [exists |-> FALSE, data |-> <<>>, last_date |-> 0]

\* StockData(data_folder): the folders found on disk.
StockData_new(files) ==
    [dir_list |-> {l \in DOMAIN files : files[l].exists},
     loaded |-> {},
     d_data |-> [l \in DOMAIN files |-> <<>>]]

\* data.pkl and meta.pkl as written for data.
Saved(data) ==
    [exists |-> TRUE, data |-> data, last_date |-> MaxOf(Col(data, <<"Date">>))]

\* The loop of add over the labels; returns files.
RECURSIVE add_loop(_, _, _, _)
add_loop(files, dir_list, labels, today) ==
    IF labels = <<>> THEN files
    ELSE IF labels[1] \in dir_list
         THEN add_loop(files, dir_list, Tail(labels), today)
         ELSE add_loop([files EXCEPT ![Lower(labels[1])] =
                           Saved(add_columns_on_import(
                                     History(Lower(labels[1]), 0, today)))],
                       dir_list, Tail(labels), today)

\* StockData.add(labels), labels a list of str; dir_list is not changed.
StockData_add(files, sd, labels, today) ==
    add_loop(files, sd.dir_list, labels, today)

\* The stored file old after the update of label on trading day today.
Updated(old, label, today) ==
    Saved(DropDuplicates(
              Concat(old.data,
                     add_columns_on_import(
                         History(Lower(label), old.last_date, today)))))

\* The loop of update over the labels; returns files.
RECURSIVE update_loop(_, _, _, _)
update_loop(files, dir_list, labels, today) ==
    IF labels = <<>> THEN files
    ELSE IF labels[1] \notin dir_list
         THEN update_loop(files, dir_list, Tail(labels), today)
         ELSE update_loop([files EXCEPT ![Lower(labels[1])] =
                              Updated(files[Lower(labels[1])], labels[1], today)],
                          dir_list, Tail(labels), today)

\* StockData.update(labels), labels a list of str.
StockData_update(files, sd, labels, today) ==
    IF sd.dir_list = {} THEN files
    ELSE update_loop(files, sd.dir_list, labels, today)

\* StockData.add_and_update(labels): update the labels found in dir_list,
\* then add the others.
StockData_add_and_update(files, sd, labels, today) ==
    LET low == [k \in 1..Len(labels) |-> Lower(labels[k])]
        update_labels == SelectSeq(low, LAMBDA l : l \in sd.dir_list)
        add_labels == SelectSeq(low, LAMBDA l : l \notin sd.dir_list)
    IN  StockData_add(StockData_update(files, sd, update_labels, today),
                      sd, add_labels, today)

\* StockData.load(): the data of every label of dir_list.
StockData_load(files, sd) ==
    [dir_list |-> sd.dir_list,
     loaded |-> sd.dir_list,
     d_data |-> [l \in DOMAIN files |->
                    IF l \in sd.dir_list THEN files[l].data ELSE <<>>]]

\* Mutant of get_stock_price: the Close of the first stored row.
get_stock_price_first(sd, label) == Col(sd.d_data[Lower(label)], <<"Close">>)[1]

\* StockData.get_stock_price(label): the Close of the first row whose Date
\* is the latest Date (the label must be loaded).
get_stock_price(sd, label) ==
    LET data == sd.d_data[Lower(label)]
        dates == Col(data, <<"Date">>)
        i == CHOOSE i \in 1..Len(dates) :
                /\ dates[i] = MaxOf(dates)
                /\ \A j \in 1..(i - 1) : dates[j] # MaxOf(dates)
    IN  Col(data, <<"Close">>)[i]

\* ------------------------------------------------------------------------
\* portfolio.py.  d_portfolio is the sequence of the dictionary's entries
\* [sym, data], data the list of the tuples <<date, quantity, price>>.
\* ------------------------------------------------------------------------

\* ls_trades: one row <<sym, date, quantity, price>> per tuple, symbol by
\* symbol in the order of the dictionary.
ls_trades(d_port) ==
    Flatten([e \in 1..Len(d_port) |->
                [k \in 1..Len(d_port[e].data) |->
                    <<d_port[e].sym, d_port[e].data[k][1],
                      d_port[e].data[k][2], d_port[e].data[k][3]>>]])

\* Every arrangement of the members of the set S.
RECURSIVE PermsOf(_)
PermsOf(S) ==
    IF S = {} THEN {<<>>}
    ELSE UNION {{<<x>> \o q : q \in PermsOf(S \ {x})} : x \in S}

\* sort_values('transact_date'): the orders of the rows S of ls that ascend
\* by date; rows of equal date may come in any order (quicksort).
RECURSIVE SortedOrders(_, _)
SortedOrders(ls, S) ==
    IF S = {} THEN {<<>>}
    ELSE LET m == CHOOSE d \in {ls[i][2] : i \in S} : \A i \in S : d <= ls[i][2]
             M == {i \in S : ls[i][2] = m}
         IN  UNION {{q \o rest : rest \in SortedOrders(ls, S \ M)} : q \in PermsOf(M)}

\* The outcomes of df_trades.sort_values('transact_date') as row lists.
SortedTrades(ls) ==
    {[i \in 1..Len(ls) |-> ls[order[i]]] : order \in SortedOrders(ls, 1..Len(ls))}

\* pd.DataFrame(rows): the trade table before the per-symbol loop.
TradeTable(rows) ==
    << [name |-> <<"Stock">>, vals |-> [i \in 1..Len(rows) |-> rows[i][1]]],
       [name |-> <<"transact_date">>, vals |-> [i \in 1..Len(rows) |-> rows[i][2]]],
       [name |-> <<"transact_quantity">>,
        vals |-> [i \in 1..Len(rows) |-> R(rows[i][3])]],
       [name |-> <<"transact_price">>, vals |-> [i \in 1..Len(rows) |-> rows[i][4]]] >>

\* Series.unique(): the distinct values in the order of first appearance.
Unique(xs) ==
    SelectSeq([i \in 1..Len(xs) |-> IF \E j \in 1..(i - 1) : xs[j] = xs[i]
                                    THEN "" ELSE xs[i]],
              LAMBDA x : x # "")

\* df.loc[mask, c] = vals: the rows of the mask take vals, the others keep
\* their value (null when the column is new).
SetMasked(df, c, mask, vals) ==
    SetCol(df, c, [i \in 1..NRows(df) |->
                      IF i \in mask THEN vals[i]
                      ELSE IF HasCol(df, c) THEN Col(df, c)[i] ELSE NaN])

\* Mutant of Cumsum: the running sum over all rows, whatever the symbol.
Cumsum_all(xs, mask) ==
    [i \in 1..Len(xs) |-> RSum([j \in 1..i |-> xs[j]])]

\* The cumsum of the rows of the mask: at row i the sum of xs over the rows
\* of the mask up to and including i.
Cumsum(xs, mask) ==
    [i \in 1..Len(xs) |->
        RSum([j \in 1..i |-> IF j \in mask THEN xs[j] ELSE R(0)])]

\* Mutant of RealizedOf: max(0, quantity * price).
RealizedOf_unsigned(quantity, price) == PyMax0(RMul(quantity, price))

\* max(0, -r['transact_quantity'] * r['transact_price'])
RealizedOf(quantity, price) == PyMax0(RMul(RNeg(quantity), price))

\* max(0, r['Holding'] * current_price)
UnrealizedOf(holding, current_price) == PyMax0(RMul(holding, current_price))

\* The body of the loop over the symbols, for the symbols syms in turn.
RECURSIVE trade_loop(_, _, _)
trade_loop(df, syms, sd) ==
    IF syms = <<>> THEN df
    ELSE LET sym == syms[1]
             n == NRows(df)
             mask == {i \in 1..n : Col(df, <<"Stock">>)[i] = sym}
             current_price == get_stock_price(sd, sym)
             df1 == SetMasked(df, <<"Holding">>, mask,
                              Cumsum(Col(df, <<"transact_quantity">>), mask))
             df2 == SetMasked(df1, <<"Realized">>, mask,
                              [i \in 1..n |->
                                  RealizedOf(Col(df1, <<"transact_quantity">>)[i],
                                             Col(df1, <<"transact_price">>)[i])])
             df3 == SetMasked(df2, <<"Unrealized">>, mask,
                              [i \in 1..n |->
                                  UnrealizedOf(Col(df2, <<"Holding">>)[i],
                                               current_price)])
         IN  trade_loop(df3, Tail(syms), sd)

\* 'Buy' if x > 0 else 'Sell'
ActionOf(quantity) == IF RGt(quantity, R(0)) THEN "Buy" ELSE "Sell"

\* The columns of df named by cols, in that order.
Reorder(df, cols) ==
    [k \in 1..Len(cols) |-> [name |-> cols[k], vals |-> Col(df, cols[k])]]

TradeColumns ==
    << <<"Stock">>, <<"Action">>, <<"transact_date">>, <<"transact_price">>,
       <<"transact_quantity">>, <<"Holding">>, <<"Realized">>, <<"Unrealized">> >>

\* Mutant of remaining_holding_of: the sold quantity counted as positive.
remaining_holding_of_unsigned(total_bought, total_sold) ==
    RSub(total_bought, total_sold)

\* remaining_holding = total_bought+total_sold
remaining_holding_of(total_bought, total_sold) == RAdd(total_bought, total_sold)

\* Portfolio._summarize_stock(df, label) for the rows of label in df_trades.
\* Without a buy the quotient total_paid / total_bought is taken as the
\* numpy quotient 0 / 0.
_summarize_stock(df_trades, label, sd) ==
    LET rows == SelectSeq([i \in 1..NRows(df_trades) |-> i],
                          LAMBDA i : Col(df_trades, <<"Stock">>)[i] = label)
        q == Col(df_trades, <<"transact_quantity">>)
        p == Col(df_trades, <<"transact_price">>)
        buys == SelectSeq(rows, LAMBDA i : RGt(q[i], R(0)))
        sells == SelectSeq(rows, LAMBDA i : RGt(R(0), q[i]))
        total_bought == RSum([k \in 1..Len(buys) |-> q[buys[k]]])
        total_paid == RSum([k \in 1..Len(buys) |-> RMul(q[buys[k]], p[buys[k]])])
        average_paid == RDiv(total_paid, total_bought)
        total_sold == RSum([k \in 1..Len(sells) |-> q[sells[k]]])
        total_realized ==
            IF sells # <<>>
            THEN RSum([k \in 1..Len(sells) |-> RMul(q[sells[k]], p[sells[k]])])
            ELSE R(0)
        remaining_holding == remaining_holding_of(total_bought, total_sold)
        remaining_invested == RMul(remaining_holding, average_paid)
        current_price == get_stock_price(sd, label)
        remaining_unrealized == RMul(remaining_holding, current_price)
        gol == RSub(remaining_unrealized, remaining_invested)
        frac_return == RDiv(gol, remaining_invested)
    IN  [Stock |-> label,
         AvgBoughtPrice |-> Round2(average_paid),
         CurrentPrice |-> Round2(current_price),
         TotalBought |-> total_bought,
         TotalSold |-> total_sold,
         CurrentHolding |-> remaining_holding,
         TotalInvested |-> Round2(total_paid),
         CurrentInvested |-> Round2(remaining_invested),
         RealizedAmount |-> Round2(RNeg(total_realized)),
         UnrealizedAmount |-> Round2(remaining_unrealized),
         UnrealizedGain |-> Round2(gol),
         PctUnrealizedGain |-> Round2(RMul(frac_return, R(100)))]

NoPortfolio ==
    [kind |-> "none", labels |-> <<>>, df_trades |-> <<>>, summary_table |-> <<>>,
     sd |-> [dir_list |-> {}, loaded |-> {}, d_data |-> <<>>]]

\* The end of the constructor, with the folder files1 after add_and_update
\* and the object sd after load: the loop over the symbols, Action, the
\* column order and the summary; or the KeyError that get_stock_price raises
\* for a symbol that is not loaded.
Portfolio_tables(labels, df0, files1, sd) ==
    IF \E k \in 1..NRows(df0) : Lower(Col(df0, <<"Stock">>)[k]) \notin sd.loaded
    THEN [files |-> files1,
          portfolio |-> [NoPortfolio EXCEPT !.kind = "error", !.labels = labels,
                                            !.sd = sd]]
    ELSE LET syms == Unique(Col(df0, <<"Stock">>))
             df1 == trade_loop(df0, syms, sd)
             df2 == SetCol(df1, <<"Action">>,
                           [i \in 1..NRows(df1) |->
                               ActionOf(Col(df1, <<"transact_quantity">>)[i])])
             df_trades == Reorder(df2, TradeColumns)
         IN  [files |-> files1,
              portfolio |->
                 [kind |-> "ok", labels |-> labels, df_trades |-> df_trades,
                  summary_table |->
                     [k \in 1..Len(syms) |-> _summarize_stock(df_trades, syms[k], sd)],
                  sd |-> sd]]

\* self.sd.load() on the folder files1, then the rest of the constructor.
Portfolio_load(labels, df0, files1, sd0) ==
    Portfolio_tables(labels, df0, files1, StockData_load(files1, sd0))

\* self.sd = StockData(...); self.sd.add_and_update(self.labels) and on.
Portfolio_library(labels, df0, files, sd0, today) ==
    Portfolio_load(labels, df0,
                   StockData_add_and_update(files, sd0, labels, today), sd0)

\* Portfolio(d_portfolio, stock_data_folder) on trading day today, sorted
\* being the rows of ls_trades as sort_values left them.  Returns [files,
\* portfolio]: the data folder afterwards, and the object or its error.
Portfolio_init(d_port, files, today, sorted) ==
    Portfolio_library([e \in 1..Len(d_port) |-> d_port[e].sym],
                      TradeTable(sorted), files, StockData_new(files), today)

\* ------------------------------------------------------------------------
\* utils.reduce_data_period.  A str is the sequence of its characters; a Date
\* is the integer yyyymmdd of a day of the calendar.
\* ------------------------------------------------------------------------

\* An exception of the Python type exc leaves the call.
RaisedOf(exc) == [kind |-> "error", df |-> <<>>, exc |-> exc]

Digits == <<"0", "1", "2", "3", "4", "5", "6", "7", "8", "9">>

IsDigit(c) == \E k \in 1..Len(Digits) : Digits[k] = c

DigitValue(c) == (CHOOSE k \in 1..Len(Digits) : Digits[k] = c) - 1

\* The number written by the digits ds.
RECURSIVE DecimalValue(_)
DecimalValue(ds) ==
    IF ds = <<>> THEN 0
    ELSE DecimalValue(SubSeq(ds, 1, Len(ds) - 1)) * Len(Digits) + DigitValue(ds[Len(ds)])

\* int(s) for a str of an optional sign and digits: [err, val]; every other
\* str of these characters raises ValueError (err).
PyIntOfStr(s) ==
    LET signed == s # <<>> /\ s[1] \in {"+", "-"}
        ds == IF signed THEN Tail(s) ELSE s
    IN  IF ds = <<>> \/ \E k \in 1..Len(ds) : ~IsDigit(ds[k])
        THEN [err |-> TRUE, val |-> 0]
        ELSE [err |-> FALSE,
              val |-> IF signed /\ s[1] = "-" THEN -DecimalValue(ds)
                      ELSE DecimalValue(ds)]

IsLeap(y) == (y % 4 = 0 /\ y % 100 # 0) \/ y % 400 = 0

MonthLengths == <<31, 28, 31, 30, 31, 30, 31, 31, 30, 31, 30, 31>>

DaysInMonth(y, m) == IF m = 2 /\ IsLeap(y) THEN 29 ELSE MonthLengths[m]

MkDate(y, m, d) == (y * 100 + m) * 100 + d

\* The day of month d of month m of year y, no later than the month's end.
ClipDate(y, m, d) ==
    MkDate(y, m, IF d > DaysInMonth(y, m) THEN DaysInMonth(y, m) ELSE d)

PrevDay(date) ==
    IF DayOf(date) > 1 THEN date - 1
    ELSE IF MonthOf(date) > 1
         THEN MkDate(YearOf(date), MonthOf(date) - 1,
                     DaysInMonth(YearOf(date), MonthOf(date) - 1))
         ELSE MkDate(YearOf(date) - 1, 12, 31)

NextDay(date) ==
    IF DayOf(date) < DaysInMonth(YearOf(date), MonthOf(date)) THEN date + 1
    ELSE IF MonthOf(date) < 12 THEN MkDate(YearOf(date), MonthOf(date) + 1, 1)
         ELSE MkDate(YearOf(date) + 1, 1, 1)

\* date - DateOffset(days=n)
RECURSIVE MinusDays(_, _)
MinusDays(date, n) ==
    IF n = 0 THEN date
    ELSE IF n > 0 THEN MinusDays(PrevDay(date), n - 1)
         ELSE MinusDays(NextDay(date), n + 1)

\* date - DateOffset(months=n): n months back, the day kept or clipped to
\* the end of the month.
MinusMonths(date, n) ==
    LET total == YearOf(date) * 12 + (MonthOf(date) - 1) - n
    IN  ClipDate(total \div 12, (total % 12) + 1, DayOf(date))

\* date - DateOffset(years=n)
MinusYears(date, n) == ClipDate(YearOf(date) - n, MonthOf(date), DayOf(date))

\* Mutant of KeepsRow: the rows after the cutoff only.
KeepsRow_after(date, cutoff_date) == date > cutoff_date

\* df_input[date_col] >= cutoff_date
KeepsRow(date, cutoff_date) == date >= cutoff_date

\* df_input.loc[df_input[date_col] >= cutoff_date]
RowsFrom(df_in, date_col, cutoff_date) ==
    TakeRows(df_in,
             SelectSeq([i \in 1..NRows(df_in) |-> i],
                       LAMBDA i : KeepsRow(Col(df_in, date_col)[i], cutoff_date)))

\* reduce_data_period for a period other than 'max': period[-1] raises
\* IndexError on the empty str, int(period[:-1]) raises ValueError, and so
\* does a unit other than d, m, y.
reduce_data_period_units(df_in, date_col, period) ==
    IF period = <<>> THEN RaisedOf("IndexError")
    ELSE LET time_type == period[Len(period)]
             time_quant == PyIntOfStr(SubSeq(period, 1, Len(period) - 1))
             last_date == MaxOf(Col(df_in, date_col))
         IN  IF time_quant.err THEN RaisedOf("ValueError")
             ELSE IF time_type = "d"
                  THEN Ok(RowsFrom(df_in, date_col,
                                   MinusDays(last_date, time_quant.val)))
             ELSE IF time_type = "m"
                  THEN Ok(RowsFrom(df_in, date_col,
                                   MinusMonths(last_date, time_quant.val)))
             ELSE IF time_type = "y"
                  THEN Ok(RowsFrom(df_in, date_col,
                                   MinusYears(last_date, time_quant.val)))
             ELSE RaisedOf("ValueError")

reduce_data_period(df_in, date_col, period) ==
    IF period = <<"m", "a", "x">> THEN Ok(df_in)
    ELSE reduce_data_period_units(df_in, date_col, period)

\* ------------------------------------------------------------------------
\* The table objects of a call. A heap is a sequence of tables and a
\* reference is an index into it: the caller's table is one object, and
\* df = df_input.copy() is another one with the same values.
\* ------------------------------------------------------------------------

\* Mutant of DataFrame_copy: the same object under a second name.
DataFrame_same(heap, ref) == [heap |-> heap, ref |-> ref]

DataFrame_copy(heap, ref) ==
    [heap |-> Append(heap, heap[ref]), ref |-> Len(heap) + 1]

\* df[name] = values for every column that the transformation assigns:
\* the object's table becomes written.
SetItems(heap, ref, written) == [heap EXCEPT ![ref] = written]

\* A transformation that assigns its columns to the object c.ref and
\* returns it; nothing is assigned when it raises.
Written(c, out) ==
    [heap |-> IF out.kind = "ok" THEN SetItems(c.heap, c.ref, out.df) ELSE c.heap,
     out |-> out]

\* A transformation that assigns nothing to the object c.ref: its result is
\* a new object.
NotWritten(c, out) == [heap |-> c.heap, out |-> out]

simple_moving_average_call(heap, ref, from_cols, windows) ==
    Written(DataFrame_copy(heap, ref),
            simple_moving_average(heap[ref], from_cols, windows))

exp_moving_average_call(heap, ref, from_cols, windows) ==
    Written(DataFrame_copy(heap, ref),
            exp_moving_average(heap[ref], from_cols, windows))

\* macd copies, and the columns are assigned to the object that
\* exp_moving_average returns, itself a copy of that copy.
macd_copies(c) == DataFrame_copy(c.heap, c.ref)

macd_call(heap, ref, price_column) ==
    Written(macd_copies(DataFrame_copy(heap, ref)), macd(heap[ref], price_column))

calculate_daily_returns_call(heap, ref, price_col) ==
    Written(DataFrame_copy(heap, ref),
            Ok(calculate_daily_returns(heap[ref], price_col)))

\* df.groupby(group_cols) on a table with rows: ValueError ("No group keys
\* passed!") on the empty list; KeyError on a key that is not a column,
\* unless the keys are taken as an array of labels; else "none".
groupby_error(df, group_cols) ==
    IF group_cols = <<>> /\ NRows(df) > 0 THEN "ValueError"
    ELSE IF KeysAreLabels(df, group_cols) THEN "none"
    ELSE IF \E k \in 1..Len(group_cols) : ~HasCol(df, group_cols[k]) THEN "KeyError"
    ELSE "none"

\* rename, merge and drop return new objects.
calculate_grouped_returns_call(heap, ref, new_col_name, price_col, group_cols) ==
    NotWritten(DataFrame_copy(heap, ref),
               IF groupby_error(heap[ref], group_cols) # "none"
               THEN RaisedOf(groupby_error(heap[ref], group_cols))
               ELSE Ok(calculate_grouped_returns(heap[ref], new_col_name,
                                                 price_col, group_cols)))

add_year_month_quarter_call(heap, ref, date_col) ==
    Written(DataFrame_copy(heap, ref),
            Ok(add_year_month_quarter(heap[ref], date_col)))

\* .loc[...] selects into a new object, which is then copied.
reduce_data_period_call(heap, ref, date_col, period) ==
    NotWritten(DataFrame_copy(heap, ref),
               reduce_data_period(heap[ref], date_col, period))

\* ------------------------------------------------------------------------
\* returns.dividend_summary.  this_year is date.today().year.
\* ------------------------------------------------------------------------

Upper(l) == IF l = "aa" THEN "AA" ELSE IF l = "bb" THEN "BB" ELSE l

\* Series.mean(): NaN for no values.
SeriesMean(xs) == RDiv(RSum(xs), R(Len(xs)))

\* The rows (indices) of df_in with a div_type that is not null and above 0.
PaidRows(df_in, div_type) ==
    SelectSeq([i \in 1..NRows(df_in) |-> i],
              LAMBDA i : /\ Col(df_in, div_type)[i] # NaN
                         /\ RGt(Col(df_in, div_type)[i], R(0)))

\* df.loc[df['year'] >= from_year, div_type].mean()
MeanSince(df, div_type, from_year) ==
    SeriesMean(Col(TakeRows(df, SelectSeq([i \in 1..NRows(df) |-> i],
                                          LAMBDA i : Col(df, <<"year">>)[i] >= from_year)),
                   div_type))

\* The record of the filtered table df: LastYear is the year in the key of
\* LastYearAverage.
dividend_record(df, symbol, div_type, last_year, five_years_ago) ==
    [Symbol |-> Upper(symbol),
     OverallAverage |-> SeriesMean(Col(df, div_type)),
     Last5YearsAverage |-> MeanSince(df, div_type, five_years_ago),
     LastYear |-> last_year,
     LastYearAverage |-> MeanSince(df, div_type, last_year)]

dividend_summary(df_in, symbol, div_type, this_year) ==
    dividend_record(TakeRows(df_in, PaidRows(df_in, div_type)), symbol, div_type,
                    this_year - 1, (this_year - 1) - 5)

\* ------------------------------------------------------------------------
\* returns.average_returns_summary.  A str is the sequence of its
\* characters.
\* ------------------------------------------------------------------------

AsciiLowercase ==
    <<"a", "b", "c", "d", "e", "f", "g", "h", "i", "j", "k", "l", "m",
      "n", "o", "p", "q", "r", "s", "t", "u", "v", "w", "x", "y", "z">>

AsciiUppercase ==
    <<"A", "B", "C", "D", "E", "F", "G", "H", "I", "J", "K", "L", "M",
      "N", "O", "P", "Q", "R", "S", "T", "U", "V", "W", "X", "Y", "Z">>

\* Mutant of str_lower: the str as it is.
str_same(s) == s

\* s.lower()
str_lower(s) ==
    [i \in 1..Len(s) |->
        IF \E k \in 1..Len(AsciiUppercase) : AsciiUppercase[k] = s[i]
        THEN AsciiLowercase[CHOOSE k \in 1..Len(AsciiUppercase) : AsciiUppercase[k] = s[i]]
        ELSE s[i]]

\* df_input[['Date', base_col, 'Q', 'year', 'month']]
SummaryColumns(base_col) == <<<<"Date">>, base_col, <<"Q">>, <<"year">>, <<"month">>>>

\* The branches of average_returns_summary on the lower-case period lowered
\* and the selection df.
average_returns_of(df, base_col, lowered) ==
    IF lowered = <<"m", "o", "n", "t", "h", "l", "y">>
    THEN Ok(RenameCol(calculate_monthly_returns(df, base_col),
                      <<"MonthlyReturns">>, base_col \o <<"-averaged-Monthly">>))
    ELSE IF lowered = <<"q", "u", "a", "r", "t", "e", "r", "l", "y">>
    THEN Ok(RenameCol(calculate_quarterly_returns(df, base_col),
                      <<"QuarterlyReturns">>, base_col \o <<"-averaged-Quarterly">>))
    ELSE IF lowered = <<"a", "n", "n", "u", "a", "l", "l", "y">>
    THEN Ok(RenameCol(calculate_annual_returns(df, base_col),
                      <<"AnnualReturns">>, base_col \o <<"-averaged-Annually">>))
    ELSE RaisedOf("ValueError")

average_returns_summary(df_in, base_col, avg_period) ==
    average_returns_of(Reorder(df_in, SummaryColumns(base_col)), base_col,
                       str_lower(avg_period))

\* ------------------------------------------------------------------------
\* StockData.add_moving_average.  The outcome is [kind, exc, sd]: the
\* exception that left the call, if any, and the object afterwards.
\* ------------------------------------------------------------------------

PyNone == [ty |-> "NoneType"]

\* The labels of a set, as a list.
RECURSIVE ListOf(_)
ListOf(S) ==
    IF S = {} THEN <<>>
    ELSE LET l == CHOOSE x \in S : TRUE IN <<l>> \o ListOf(S \ {l})

\* Mutant of d_ma: the simple moving average for both methods.
d_ma_simple(method, df, column, windows) ==
    simple_moving_average(df, column, windows)

\* d_ma[method](df, column, windows)
d_ma(method, df, column, windows) ==
    IF method = "sma" THEN simple_moving_average(df, column, windows)
    ELSE exp_moving_average(df, column, windows)

Returned(sd) == [kind |-> "ok", exc |-> "none", sd |-> sd]

RaisedIn(sd, exc) == [kind |-> "error", exc |-> exc, sd |-> sd]

\* The loop over the labels: self.d_data[label] raises KeyError for a label
\* that is not a key, and the moving average raises ValueError for windows
\* that are not int; the tables replaced before stay replaced.
RECURSIVE moving_average_loop(_, _, _, _, _)
RECURSIVE moving_average_step(_, _, _, _, _, _)
moving_average_loop(sd, labels, column, windows, method) ==
    IF labels = <<>> THEN Returned(sd)
    ELSE IF labels[1] \notin sd.loaded THEN RaisedIn(sd, "KeyError")
    ELSE moving_average_step(sd, labels, column, windows, method,
                             d_ma(method, sd.d_data[labels[1]], column, windows))

\* The rest of the loop after the moving average r of the first label.
moving_average_step(sd, labels, column, windows, method, r) ==
    IF r.kind = "error" THEN RaisedIn(sd, "ValueError")
    ELSE moving_average_loop([sd EXCEPT !.d_data[labels[1]] = r.df],
                             Tail(labels), column, windows, method)

\* The labels of the call: those of dir_list for None, else the list of the
\* normalizer, or its ValueError (err).
labels_or_all(sd, labels) ==
    IF labels = PyNone THEN [err |-> FALSE, val |-> ListOf(sd.dir_list)]
    ELSE LET r == check_and_convert_value_to_list(labels, "str")
         IN  [err |-> r.err, val |-> [k \in 1..Len(r.val) |-> r.val[k].s]]

\* add_moving_average on the object sd; has_d_data: load() has been called,
\* the object has the attribute d_data.
add_moving_average(sd, has_d_data, labels, column, windows, method) ==
    IF ~has_d_data THEN RaisedIn(sd, "AttributeError")
    ELSE IF sd.loaded = {} THEN RaisedIn(sd, "ValueError")
    ELSE IF windows = PyNone THEN RaisedIn(sd, "ValueError")
    ELSE IF method \notin {"sma", "ema"} THEN RaisedIn(sd, "ValueError")
    ELSE IF labels_or_all(sd, labels).err THEN RaisedIn(sd, "ValueError")
    ELSE moving_average_loop(sd, labels_or_all(sd, labels).val, column, windows,
                             method)

\* ------------------------------------------------------------------------
\* StockData.add_macd, StockData.plot_single_analysis and
\* Portfolio.plot_portfolio_detailed, for what they do to the loaded data.
\* ------------------------------------------------------------------------

\* The loop of add_macd over the labels: self.d_data raises AttributeError
\* before load(), self.d_data[label] raises KeyError for a label that is not
\* a key; the tables replaced before stay replaced.
RECURSIVE macd_loop(_, _, _)
RECURSIVE macd_step(_, _, _, _)
macd_loop(sd, has_d_data, labels) ==
    IF labels = <<>> THEN Returned(sd)
    ELSE IF ~has_d_data THEN RaisedIn(sd, "AttributeError")
    ELSE IF labels[1] \notin sd.loaded THEN RaisedIn(sd, "KeyError")
    ELSE macd_step(sd, has_d_data, labels,
                   macd(sd.d_data[labels[1]], PyStr(<<"Close">>)))

\* The rest of the loop after the MACD r of the first label.
macd_step(sd, has_d_data, labels, r) ==
    IF r.kind = "error" THEN RaisedIn(sd, "ValueError")
    ELSE macd_loop([sd EXCEPT !.d_data[labels[1]] = r.df], has_d_data, Tail(labels))

\* add_macd(labels) on the object sd.
add_macd(sd, has_d_data, labels) ==
    IF labels_or_all(sd, labels).err THEN RaisedIn(sd, "ValueError")
    ELSE macd_loop(sd, has_d_data, labels_or_all(sd, labels).val)

\* The chart of plot_single_analysis on the object after add_macd:
\* reduce_data_period raises for a period it does not know, else the chart
\* is displayed.
macd_chart_of(r, symbol, period) ==
    IF r.kind = "error" THEN r
    ELSE IF reduce_data_period(r.sd.d_data[Lower(symbol)], <<"Date">>, period).kind
               = "error"
    THEN RaisedIn(r.sd, reduce_data_period(r.sd.d_data[Lower(symbol)], <<"Date">>,
                                           period).exc)
    ELSE r

\* plot_single_analysis(symbol, period) on the object sd: the MACD columns
\* are added to the table of the symbol when it has none.
plot_single_analysis(sd, has_d_data, symbol, period) ==
    IF Lower(symbol) \notin sd.dir_list THEN RaisedIn(sd, "ValueError")
    ELSE IF ~has_d_data THEN RaisedIn(sd, "AttributeError")
    ELSE IF Lower(symbol) \notin sd.loaded THEN RaisedIn(sd, "KeyError")
    ELSE macd_chart_of(IF HasCol(sd.d_data[Lower(symbol)], <<"MACD">>)
                       THEN Returned(sd)
                       ELSE add_macd(sd, has_d_data, PyStr(Lower(symbol))),
                       symbol, period)

\* plot_portfolio_detailed on the StockData object of a portfolio with the
\* given labels: plot_single_analysis of each, until one raises.
RECURSIVE plot_portfolio_detailed(_, _)
plot_detailed_step(r, labels) ==
    IF r.kind = "error" THEN r ELSE plot_portfolio_detailed(r.sd, labels)

plot_portfolio_detailed(sd, labels) ==
    IF labels = <<>> THEN Returned(sd)
    ELSE plot_detailed_step(plot_single_analysis(sd, TRUE, labels[1], <<"m", "a", "x">>),
                            Tail(labels))

\* ------------------------------------------------------------------------
\* State.  The transformations are pure: a call takes the table df_input and
\* the arguments args, and leaves its outcome in result.
\* ------------------------------------------------------------------------

VARIABLES
    pc,         \* "input_<family>": the arguments of a call of the family are
                \* chosen, "done": the call has returned
    op,         \* the function that was called
    df_input,   \* the table passed to the call
    args,       \* the other arguments of the call
    result,     \* [kind |-> "ok" | "error", df |-> the returned table]
    today,      \* the provider's current trading day (a row of Market)
    files,      \* the data folder: label -> [exists, data, last_date]
    d_portfolio,\* the dictionary passed to Portfolio
    portfolio   \* the constructed Portfolio object, or its error

vars == <<pc, op, df_input, args, result, today, files, d_portfolio, portfolio>>

fnvars == <<pc, op, df_input, args, result>>

libvars == <<today, files, d_portfolio, portfolio>>

\* The transformations run without a library.
NoLibrary ==
    /\ today = 0
    /\ files = [l \in Folders |-> NoFile]
    /\ d_portfolio = <<>>
    /\ portfolio = NoPortfolio

\* Bounds of the enumerated inputs.
MaxLen == 3

\* yyyymmdd dates: two in January 2020, one in the second quarter of 2020,
\* one in 2021.
Dates == {20200130, 20200131, 20200401, 20210104}

Prices == {0, 1, 2}

\* A price table with the columns Date and Close, one row per element of
\* rows (pairs <<date, close>>).
PriceTable(rows) ==
    << [name |-> <<"Date">>, vals |-> [i \in 1..Len(rows) |-> rows[i][1]]],
       [name |-> <<"Close">>, vals |-> [i \in 1..Len(rows) |-> R(rows[i][2])]] >>

RawSeries == UNION {[1..n -> Dates \X Prices] : n \in 1..MaxLen}

\* ---- the periodic return aggregator ------------------------------------

\* The lists of grouping columns: the three calendar lists, the default
\* (empty) list, and the column k, which is not derived from the Date.
GroupLists ==
    { PyList(<<PyStr(<<"year">>), PyStr(<<"month">>)>>),
      PyList(<<PyStr(<<"Q">>)>>),
      PyList(<<PyStr(<<"year">>)>>),
      PyList(<<>>),
      PyList(<<PyStr(<<"k">>)>>) }

\* The columns k of n rows, of the keys 0 and 1: one bucket, two buckets
\* whose rows alternate, and the first row apart from the others.
KeyColumns(n) ==
    { [i \in 1..n |-> 0],
      [i \in 1..n |-> (i + 1) % 2],
      [i \in 1..n |-> IF i = 1 THEN 0 ELSE 1] }

GroupsByKey(g) == g = PyList(<<PyStr(<<"k">>)>>)

\* The column k varies in the calls that group by it.
InitReturns ==
    /\ pc = "input_returns"
    /\ op = "none"
    /\ \E rows \in RawSeries, g \in GroupLists :
          /\ \E k \in KeyColumns(Len(rows)) :
                /\ GroupsByKey(g) \/ k = [i \in 1..Len(rows) |-> 0]
                /\ df_input = SetCol(add_year_month_quarter(PriceTable(rows), <<"Date">>),
                                     <<"k">>, k)
          /\ args = [new_col_name |-> <<"Returns">>, price_col |-> <<"Close">>,
                     group_cols |-> g]
    /\ result = NoResult
    /\ NoLibrary

GroupedReturns ==
    /\ pc = "input_returns"
    /\ LET g == check_and_convert_value_to_list(args.group_cols, "str")
       IN  result' = IF g.err THEN Raised
                     ELSE IF groupby_error(df_input, Raw(g.val)) # "none" THEN Raised
                     ELSE Ok(calculate_grouped_returns(df_input, args.new_col_name,
                                                       args.price_col, Raw(g.val)))
    /\ op' = "calculate_grouped_returns"
    /\ pc' = "done"
    /\ UNCHANGED <<df_input, args>>
    /\ UNCHANGED libvars

NextReturns == GroupedReturns

SpecReturns == InitReturns /\ [][NextReturns]_vars

\* ---- the moving average engine -----------------------------------------

\* The largest window / span of the enumerated calls.
MaxSpan == 3

\* Values of the Close column: null and three prices.
MAValues == {NaN, R(1), R(2), R(4)}

\* A table with the columns Close (the given values) and Open (the row
\* number, never null).
MATable(closes) ==
    << [name |-> <<"Close">>, vals |-> closes],
       [name |-> <<"Open">>, vals |-> [i \in 1..Len(closes) |-> R(i)]] >>

MASeries == UNION {[1..n -> MAValues] : n \in 1..MaxLen}

\* from_cols: a scalar, a one-element list, a two-element list, a non-string.
FromCols ==
    { PyStr(<<"Close">>),
      PyList(<<PyStr(<<"Close">>)>>),
      PyList(<<PyStr(<<"Close">>), PyStr(<<"Open">>)>>),
      PyInt(5) }

\* windows: a scalar, lists of two windows, a non-integer.
WindowArgs ==
    {PyInt(w) : w \in 0..MaxSpan}
    \cup { PyList(<<PyInt(1), PyInt(MaxSpan)>>),
           PyList(<<PyInt(2), PyInt(2)>>),
           PyStr(<<"5">>) }

InitMA ==
    /\ pc = "input_ma"
    /\ op = "none"
    /\ \E closes \in MASeries : df_input = MATable(closes)
    /\ \E c \in FromCols, w \in WindowArgs : args = [from_cols |-> c, windows |-> w]
    /\ result = NoResult
    /\ NoLibrary

SimpleMovingAverage ==
    /\ pc = "input_ma"
    /\ result' = simple_moving_average(df_input, args.from_cols, args.windows)
    /\ op' = "simple_moving_average"
    /\ pc' = "done"
    /\ UNCHANGED <<df_input, args>>
    /\ UNCHANGED libvars

ExpMovingAverage ==
    /\ pc = "input_ma"
    /\ result' = exp_moving_average(df_input, args.from_cols, args.windows)
    /\ op' = "exp_moving_average"
    /\ pc' = "done"
    /\ UNCHANGED <<df_input, args>>
    /\ UNCHANGED libvars

NextMA == SimpleMovingAverage \/ ExpMovingAverage

SpecMA == InitMA /\ [][NextMA]_vars

\* ---- the MACD engine ---------------------------------------------------

\* price_column: a column name; also as a one- and a two-element list.
PriceColumns ==
    { PyStr(<<"Close">>),
      PyStr(<<"Open">>),
      PyList(<<PyStr(<<"Close">>)>>),
      PyList(<<PyStr(<<"Close">>), PyStr(<<"Open">>)>>) }

InitMacd ==
    /\ pc = "input_macd"
    /\ op = "none"
    /\ \E closes \in MASeries : df_input = MATable(closes)
    /\ \E c \in PriceColumns : args = [price_column |-> c]
    /\ result = NoResult
    /\ NoLibrary

Macd ==
    /\ pc = "input_macd"
    /\ result' = macd(df_input, args.price_column)
    /\ op' = "macd"
    /\ pc' = "done"
    /\ UNCHANGED <<df_input, args>>
    /\ UNCHANGED libvars

NextMacd == Macd

SpecMacd == InitMacd /\ [][NextMacd]_vars

\* ---- the portfolio aggregator ------------------------------------------

\* The most trades of the first symbol of an enumerated dictionary.
MaxTrades == 3

\* The trading days on which the constructor runs (rows of Market).
TradingDays == {1, 2}

\* The trades an entry is made of: <<date, quantity, price>>.
TradeMenu ==
    { <<20200130, 20, R(1)>>, <<20200215, -10, R(2)>>,
      <<20200310, 100, <<3, 2>>>>, <<20200130, -30, R(2)>> }

TradeLists(n) == UNION {[1..k -> TradeMenu] : k \in 1..n}

\* The single trade of the second symbol.
SideTrades == { <<20200301, 20, R(1)>>, <<20200130, -30, R(2)>> }

\* Dictionaries with the key AA, or with the keys AA and bb in either order.
Ledgers ==
    {<<[sym |-> "AA", data |-> t]>> : t \in TradeLists(MaxTrades)}
    \cup UNION {{<<[sym |-> "AA", data |-> t], [sym |-> "bb", data |-> <<u>>]>>,
                 <<[sym |-> "bb", data |-> <<u>>], [sym |-> "AA", data |-> t]>>} :
                    <<t, u>> \in TradeLists(MaxTrades - 1) \X SideTrades}

\* The data folder in which each label of added was added on the trading
\* day added[label] (0: never added).
LibraryOf(added) ==
    [l \in Folders |->
        IF added[l] = 0 THEN NoFile
        ELSE StockData_add([f \in Folders |-> NoFile],
                           StockData_new([f \in Folders |-> NoFile]),
                           <<l>>, added[l])[l]]

InitPortfolio ==
    /\ pc = "input_portfolio"
    /\ op = "none"
    /\ df_input = <<>>
    /\ args = <<>>
    /\ result = NoResult
    /\ today \in TradingDays
    /\ \E added \in [Folders -> 0..today] : files = LibraryOf(added)
    /\ d_portfolio \in Ledgers
    /\ portfolio = NoPortfolio

PortfolioNew ==
    /\ pc = "input_portfolio"
    /\ \E sorted \in SortedTrades(ls_trades(d_portfolio)) :
          \E r \in {Portfolio_init(d_portfolio, files, today, sorted)} :
              /\ files' = r.files
              /\ portfolio' = r.portfolio
    /\ op' = "Portfolio"
    /\ pc' = "done"
    /\ UNCHANGED <<df_input, args, result, today, d_portfolio>>

\* plot_portfolio_detailed() on the constructed portfolio: its StockData
\* object is left with the MACD columns on the tables of the labels.
PortfolioPlotDetailed ==
    /\ pc = "done"
    /\ portfolio.kind = "ok"
    /\ \E r \in {plot_portfolio_detailed(portfolio.sd, portfolio.labels)} :
          /\ portfolio' = [portfolio EXCEPT !.sd = r.sd]
          /\ result' = [kind |-> r.kind, df |-> <<>>, exc |-> r.exc]
    /\ op' = "plot_portfolio_detailed"
    /\ UNCHANGED <<pc, df_input, args, today, files, d_portfolio>>

NextPortfolio == PortfolioNew \/ PortfolioPlotDetailed

SpecPortfolio == InitPortfolio /\ [][NextPortfolio]_vars

\* ---- daily returns ---------------------------------------------------------

InitDaily ==
    /\ pc = "input_daily"
    /\ op = "none"
    /\ \E rows \in RawSeries : df_input = PriceTable(rows)
    /\ args = [price_col |-> <<"Close">>]
    /\ result = NoResult
    /\ NoLibrary

DailyReturns ==
    /\ pc = "input_daily"
    /\ result' = Ok(calculate_daily_returns(df_input, args.price_col))
    /\ op' = "calculate_daily_returns"
    /\ pc' = "done"
    /\ UNCHANGED <<df_input, args>>
    /\ UNCHANGED libvars

NextDaily == DailyReturns

SpecDaily == InitDaily /\ [][NextDaily]_vars

\* ---- the series period reducer ---------------------------------------------

ReduceDates == {20190228, 20200228, 20200229, 20200330, 20200331}

\* A table of the given dates, Close being the number of the row.
DatedTable(dates) ==
    << [name |-> <<"Date">>, vals |-> dates],
       [name |-> <<"Close">>, vals |-> [i \in 1..Len(dates) |-> R(i)]] >>

DatedSeries == UNION {[1..n -> ReduceDates] : n \in 1..MaxLen}

\* 'max', periods of a count and a unit, and strs that are neither.
Periods ==
    { <<"m", "a", "x">>,
      <<"0", "d">>, <<"1", "d">>, <<"2", "d">>, <<"3", "0", "d">>, <<"-", "1", "d">>,
      <<"1", "m">>, <<"2", "m">>, <<"1", "2", "m">>, <<"1", "3", "m">>,
      <<"1", "y">>, <<"+", "1", "y">>, <<"0", "y">>,
      <<>>, <<"d">>, <<"y">>, <<"x">>, <<"1">>, <<"1", "x">>, <<"1", "D">>,
      <<"x", "d">>, <<"1", ".", "5", "d">>, <<"m", "a">>, <<"-", "m">>,
      <<"M", "A", "X">>, <<"1", "d", "d">> }

InitReduce ==
    /\ pc = "input_reduce"
    /\ op = "none"
    /\ \E dates \in DatedSeries : df_input = DatedTable(dates)
    /\ \E period \in Periods : args = [date_col |-> <<"Date">>, period |-> period]
    /\ result = NoResult
    /\ NoLibrary

ReduceDataPeriod ==
    /\ pc = "input_reduce"
    /\ result' = reduce_data_period(df_input, args.date_col, args.period)
    /\ op' = "reduce_data_period"
    /\ pc' = "done"
    /\ UNCHANGED <<df_input, args>>
    /\ UNCHANGED libvars

NextReduce == ReduceDataPeriod

SpecReduce == InitReduce /\ [][NextReduce]_vars

\* ---- the list normalizer ---------------------------------------------------

\* The most values of an enumerated list.
MaxListLen == 3

PyScalars == {PyStr(<<"AAPL">>), PyStr(<<"MSFT">>), PyInt(5), PyInt(0)}

\* The values of a list: scalars, and the empty list as a nested value.
PyItems == PyScalars \cup {PyList(<<>>)}

PyValues ==
    PyScalars \cup {PyList(xs) : xs \in UNION {[1..n -> PyItems] : n \in 0..MaxListLen}}

InitNormalize ==
    /\ pc = "input_normalize"
    /\ op = "none"
    /\ df_input = <<>>
    /\ \E v \in PyValues : \E t \in {"str", "int"} :
          args = [val_or_list |-> v, expected_type |-> t]
    /\ result = NoResult
    /\ NoLibrary

CheckAndConvert ==
    /\ pc = "input_normalize"
    /\ \E r \in {check_and_convert_value_to_list(args.val_or_list, args.expected_type)} :
          result' = IF r.err THEN [kind |-> "error", val |-> <<>>]
                    ELSE [kind |-> "ok", val |-> r.val]
    /\ op' = "check_and_convert_value_to_list"
    /\ pc' = "done"
    /\ UNCHANGED <<df_input, args>>
    /\ UNCHANGED libvars

NextNormalize == CheckAndConvert

SpecNormalize == InitNormalize /\ [][NextNormalize]_vars

\* ---- one table passed to several transformations --------------------------

\* Tables of one or two rows, as downloaded (Date, Close) or with the
\* calendar columns already added.
FrameSeries == UNION {[1..n -> Dates \X {1, 2}] : n \in 1..2}

FrameTables ==
    {PriceTable(rows) : rows \in FrameSeries}
    \cup {add_year_month_quarter(PriceTable(rows), <<"Date">>) : rows \in FrameSeries}

\* The arguments of the calls, and the values of the table before them.
InitFrame ==
    /\ pc = "input_frame"
    /\ op = "none"
    /\ df_input \in FrameTables
    /\ args = [before |-> df_input,
               from_cols |-> PyStr(<<"Close">>),
               windows |-> PyInt(2),
               price_col |-> <<"Close">>,
               new_col_name |-> <<"Returns">>,
               group_cols |-> << <<"year">>, <<"month">> >>,
               date_col |-> <<"Date">>,
               period |-> <<"1", "m">>]
    /\ result = NoResult
    /\ NoLibrary

CallsOf(res) == IF res.kind = "calls" THEN res.calls ELSE <<>>

\* The call name(df_input, ...) has left the heap and the outcome of r: the
\* caller keeps object 1, and the outcome joins those of the earlier calls.
Called(name, r) ==
    /\ pc \in {"input_frame", "called"}
    /\ df_input' = r.heap[1]
    /\ result' = [kind |-> "calls", df |-> <<>>,
                  calls |-> Append(CallsOf(result), [op |-> name, out |-> r.out])]
    /\ op' = name
    /\ pc' = IF pc = "input_frame" THEN "called" ELSE "done"
    /\ UNCHANGED args
    /\ UNCHANGED libvars

FrameSMA ==
    Called("simple_moving_average",
           simple_moving_average_call(<<df_input>>, 1, args.from_cols, args.windows))

FrameEMA ==
    Called("exp_moving_average",
           exp_moving_average_call(<<df_input>>, 1, args.from_cols, args.windows))

FrameMacd ==
    Called("macd", macd_call(<<df_input>>, 1, args.from_cols))

FrameDaily ==
    Called("calculate_daily_returns",
           calculate_daily_returns_call(<<df_input>>, 1, args.price_col))

FrameGrouped ==
    Called("calculate_grouped_returns",
           calculate_grouped_returns_call(<<df_input>>, 1, args.new_col_name,
                                          args.price_col, args.group_cols))

FrameCalendar ==
    Called("add_year_month_quarter",
           add_year_month_quarter_call(<<df_input>>, 1, args.date_col))

FrameReduce ==
    Called("reduce_data_period",
           reduce_data_period_call(<<df_input>>, 1, args.date_col, args.period))

NextFrame ==
    \/ FrameSMA
    \/ FrameEMA
    \/ FrameMacd
    \/ FrameDaily
    \/ FrameGrouped
    \/ FrameCalendar
    \/ FrameReduce

SpecFrame == InitFrame /\ [][NextFrame]_vars

\* ---- the dividend summarizer -----------------------------------------------

\* The years of the rows, and the years in which the call is made.
DividendYears == {2014, 2015, 2016, 2020, 2021}

ClockYears == {2021, 2022}

\* Yields: null, none, and two paid ones.
Yields == {NaN, R(0), <<1, 100>>, <<3, 100>>}

\* A table with the columns year and FracDividends, one row per element of
\* rows (pairs <<year, yield>>).
DividendTable(rows) ==
    << [name |-> <<"year">>, vals |-> [i \in 1..Len(rows) |-> rows[i][1]]],
       [name |-> <<"FracDividends">>, vals |-> [i \in 1..Len(rows) |-> rows[i][2]]] >>

DividendSeries == UNION {[1..n -> DividendYears \X Yields] : n \in 1..MaxLen}

InitDividend ==
    /\ pc = "input_dividend"
    /\ op = "none"
    /\ \E rows \in DividendSeries : df_input = DividendTable(rows)
    /\ \E y \in ClockYears :
          args = [symbol |-> "aa", div_type |-> <<"FracDividends">>, this_year |-> y]
    /\ result = NoResult
    /\ NoLibrary

DividendSummary ==
    /\ pc = "input_dividend"
    /\ result' = [kind |-> "ok", df |-> <<>>,
                  d_div |-> dividend_summary(df_input, args.symbol, args.div_type,
                                             args.this_year)]
    /\ op' = "dividend_summary"
    /\ pc' = "done"
    /\ UNCHANGED <<df_input, args>>
    /\ UNCHANGED libvars

NextDividend == DividendSummary

SpecDividend == InitDividend /\ [][NextDividend]_vars

\* ---- the return averaging --------------------------------------------------

\* Price tables with the calendar columns and DailyReturns.
AveragedSeries == UNION {[1..n -> Dates \X {1, 2}] : n \in 1..MaxLen}

AveragedTable(rows) ==
    calculate_daily_returns(add_year_month_quarter(PriceTable(rows), <<"Date">>),
                            <<"Close">>)

\* avg_period: the three periods in several letter cases, and other strs.
AvgPeriods ==
    { <<"m", "o", "n", "t", "h", "l", "y">>,
      <<"M", "o", "n", "t", "h", "l", "y">>,
      <<"M", "O", "N", "T", "H", "L", "Y">>,
      <<"m", "O", "n", "T", "h", "L", "y">>,
      <<"q", "u", "a", "r", "t", "e", "r", "l", "y">>,
      <<"Q", "u", "a", "r", "t", "e", "r", "l", "y">>,
      <<"Q", "U", "A", "R", "T", "E", "R", "L", "Y">>,
      <<"a", "n", "n", "u", "a", "l", "l", "y">>,
      <<"A", "n", "n", "u", "a", "l", "l", "y">>,
      <<>>,
      <<"m", "o", "n", "t", "h">>,
      <<"m", "o", "n", "t", "h", "l", "y", " ">> }

InitAveraged ==
    /\ pc = "input_averaged"
    /\ op = "none"
    /\ \E rows \in AveragedSeries : df_input = AveragedTable(rows)
    /\ \E p \in AvgPeriods : args = [base_col |-> <<"DailyReturns">>, avg_period |-> p]
    /\ result = NoResult
    /\ NoLibrary

AverageReturnsSummary ==
    /\ pc = "input_averaged"
    /\ result' = average_returns_summary(df_input, args.base_col, args.avg_period)
    /\ op' = "average_returns_summary"
    /\ pc' = "done"
    /\ UNCHANGED <<df_input, args>>
    /\ UNCHANGED libvars

NextAveraged == AverageReturnsSummary

SpecAveraged == InitAveraged /\ [][NextAveraged]_vars

\* ---- batches of labels on the data library --------------------------------

\* The labels of a batch: folder names, and a ticker in upper case.
BatchLabels == {"aa", "bb", "AA"}

Batches == UNION {[1..n -> BatchLabels] : n \in 1..MaxListLen}

\* A library as earlier adds left it, a batch, and the folder before the call.
InitLibrary ==
    /\ pc = "input_library"
    /\ op = "none"
    /\ df_input = <<>>
    /\ result = NoResult
    /\ today \in TradingDays
    /\ \E added \in [Folders -> 0..today] : files = LibraryOf(added)
    /\ \E labels \in Batches : args = [labels |-> labels, before |-> files]
    /\ d_portfolio = <<>>
    /\ portfolio = NoPortfolio

\* StockData(data_folder).add(labels)
LibraryAdd ==
    /\ pc = "input_library"
    /\ files' = StockData_add(files, StockData_new(files), args.labels, today)
    /\ op' = "add"
    /\ pc' = "done"
    /\ UNCHANGED <<df_input, args, result, today, d_portfolio, portfolio>>

\* StockData(data_folder).update(labels)
LibraryUpdate ==
    /\ pc = "input_library"
    /\ files' = StockData_update(files, StockData_new(files), args.labels, today)
    /\ op' = "update"
    /\ pc' = "done"
    /\ UNCHANGED <<df_input, args, result, today, d_portfolio, portfolio>>

NextLibrary == LibraryAdd \/ LibraryUpdate

SpecLibrary == InitLibrary /\ [][NextLibrary]_vars

\* ---- moving averages on the loaded data -----------------------------------

\* labels: None, a label, lists of labels (the empty list, a list ending in
\* a ticker in upper case), a ticker in upper case, a number.
LabelArgs ==
    { PyNone, PyStr("aa"), PyList(<<PyStr("bb")>>),
      PyList(<<PyStr("aa"), PyStr("bb")>>), PyStr("AA"), PyInt(5),
      PyList(<<>>), PyList(<<PyStr("aa"), PyStr("AA")>>) }

\* windows: None, a window, a list of windows, a str, the window 0.
LoadedWindows ==
    { PyNone, PyInt(2), PyList(<<PyInt(1), PyInt(2)>>), PyStr(<<"5">>), PyInt(0) }

Methods == {"sma", "ema", "SMA", "wma"}

\* A library as earlier adds left it, and a StockData object on it, before
\* or after load().
InitLoaded ==
    /\ pc = "input_loaded"
    /\ op = "none"
    /\ df_input = <<>>
    /\ result = NoResult
    /\ today \in TradingDays
    /\ \E added \in [Folders -> 0..today] : files = LibraryOf(added)
    /\ \E has_d_data \in BOOLEAN, l \in LabelArgs, w \in LoadedWindows, m \in Methods :
          args = [sd |-> IF has_d_data
                         THEN StockData_load(files, StockData_new(files))
                         ELSE StockData_new(files),
                  has_d_data |-> has_d_data,
                  labels |-> l, column |-> PyStr(<<"Close">>),
                  windows |-> w, method |-> m]
    /\ d_portfolio = <<>>
    /\ portfolio = NoPortfolio

AddMovingAverage ==
    /\ pc = "input_loaded"
    /\ result' = add_moving_average(args.sd, args.has_d_data, args.labels,
                                    args.column, args.windows, args.method)
    /\ op' = "add_moving_average"
    /\ pc' = "done"
    /\ UNCHANGED <<df_input, args>>
    /\ UNCHANGED libvars

AddMacd ==
    /\ pc = "input_loaded"
    /\ result' = add_macd(args.sd, args.has_d_data, args.labels)
    /\ op' = "add_macd"
    /\ pc' = "done"
    /\ UNCHANGED <<df_input, args>>
    /\ UNCHANGED libvars

\* The symbols and periods of plot_single_analysis.
PlotSymbols == {"aa", "AA", "bb"}

PlotPeriods == {<<"m", "a", "x">>, <<"1", "m">>, <<"x">>}

\* The outcome r of the call with symbol and period.
PlotOutcome(r, symbol, period) ==
    [kind |-> r.kind, exc |-> r.exc, sd |-> r.sd, symbol |-> symbol, period |-> period]

PlotSingleAnalysis ==
    /\ pc = "input_loaded"
    /\ \E symbol \in PlotSymbols, period \in PlotPeriods :
          result' = PlotOutcome(plot_single_analysis(args.sd, args.has_d_data,
                                                     symbol, period),
                                symbol, period)
    /\ op' = "plot_single_analysis"
    /\ pc' = "done"
    /\ UNCHANGED <<df_input, args>>
    /\ UNCHANGED libvars

NextLoaded == AddMovingAverage \/ AddMacd \/ PlotSingleAnalysis

SpecLoaded == InitLoaded /\ [][NextLoaded]_vars

\* ---- the library over the trading days --------------------------------------

\* The trading days of the provider.
MarketDays == 1..Len(Market("aa"))

\* An empty data folder on the first trading day, and a StockData object
\* constructed on it (args.sd).
InitSessions ==
    /\ pc = "session"
    /\ op = "none"
    /\ df_input = <<>>
    /\ result = NoResult
    /\ today = 1
    /\ files = [l \in Folders |-> NoFile]
    /\ args = [sd |-> StockData_new(files)]
    /\ d_portfolio = <<>>
    /\ portfolio = NoPortfolio

\* StockData(data_folder): a new object reads the folders of the library.
SessionNew ==
    /\ pc = "session"
    /\ args' = [sd |-> StockData_new(files)]
    /\ op' = "StockData"
    /\ UNCHANGED <<pc, df_input, result, today, files, d_portfolio, portfolio>>

\* add(label) on the object.
SessionAdd ==
    /\ pc = "session"
    /\ \E l \in Folders : files' = StockData_add(files, args.sd, <<l>>, today)
    /\ op' = "add"
    /\ UNCHANGED <<pc, df_input, args, result, today, d_portfolio, portfolio>>

\* update(label) on the object.
SessionUpdate ==
    /\ pc = "session"
    /\ \E l \in Folders : files' = StockData_update(files, args.sd, <<l>>, today)
    /\ op' = "update"
    /\ UNCHANGED <<pc, df_input, args, result, today, d_portfolio, portfolio>>

\* The next trading day begins.
SessionNextDay ==
    /\ pc = "session"
    /\ today + 1 \in MarketDays
    /\ today' = today + 1
    /\ op' = "day"
    /\ UNCHANGED <<pc, df_input, args, result, files, d_portfolio, portfolio>>

NextSessions == SessionNew \/ SessionAdd \/ SessionUpdate \/ SessionNextDay

SpecSessions == InitSessions /\ [][NextSessions]_vars

\* ---- everything ---------------------------------------------------------

Init ==
    \/ InitReturns
    \/ InitMA
    \/ InitMacd
    \/ InitPortfolio
    \/ InitDaily
    \/ InitReduce
    \/ InitNormalize
    \/ InitFrame
    \/ InitDividend
    \/ InitAveraged
    \/ InitLibrary
    \/ InitLoaded
    \/ InitSessions

Next ==
    \/ NextReturns
    \/ NextMA
    \/ NextMacd
    \/ NextPortfolio
    \/ NextDaily
    \/ NextReduce
    \/ NextNormalize
    \/ NextFrame
    \/ NextDividend
    \/ NextAveraged
    \/ NextLibrary
    \/ NextLoaded
    \/ NextSessions

Spec == Init /\ [][Next]_vars

\* ------------------------------------------------------------------------
\* Properties of calculate_grouped_returns.
\* ------------------------------------------------------------------------

GroupedCalled == pc = "done" /\ op = "calculate_grouped_returns"

GroupedDone == GroupedCalled /\ result.kind = "ok"

\* The rows of df in the bucket of row i: the rows with the same values of
\* the grouping columns.
Bucket(df, i) ==
    LET g == Raw(args.group_cols.xs)
    IN  {j \in 1..NRows(df) : GroupKey(df, g, j) = GroupKey(df, g, i)}

\* Within every bucket the rows are in strictly ascending Date order.
AscendingInBuckets(df) ==
    \A i, j \in 1..NRows(df) :
        (i < j /\ j \in Bucket(df, i))
            => Col(df, <<"Date">>)[i] < Col(df, <<"Date">>)[j]

\* No Date is carried by rows of two buckets.
NoSharedDate(df) ==
    \A i, j \in 1..NRows(df) :
        j \notin Bucket(df, i) => Col(df, <<"Date">>)[i] # Col(df, <<"Date">>)[j]

\* The row of the bucket B with the least / greatest Date.
RowOfMinDate(df, B) ==
    CHOOSE i \in B : \A j \in B : Col(df, <<"Date">>)[i] <= Col(df, <<"Date">>)[j]

RowOfMaxDate(df, B) ==
    CHOOSE i \in B : \A j \in B : Col(df, <<"Date">>)[i] >= Col(df, <<"Date">>)[j]

\* (last - first) / first over the bucket B, first and last taken by Date.
BucketReturn(df, B) ==
    LET first == Col(df, <<"Close">>)[RowOfMinDate(df, B)]
        last == Col(df, <<"Close">>)[RowOfMaxDate(df, B)]
    IN  RDiv(RSub(last, first), first)

\* No bucket has the first and the last price both zero: the quotient of
\* every bucket is a value (a number or an infinity), not 0/0.
ReturnsDefined(df) ==
    \A i \in 1..NRows(df) : ~IsNull(BucketReturn(df, Bucket(df, i)))

\* In the table out, every bucket has exactly one non-null value of the new
\* column, on the row whose Date is the bucket's maximum Date, and that value
\* is the bucket's return.
MarksBucketEnds(out) ==
    LET new == Col(out, args.new_col_name)
        dates == Col(out, <<"Date">>)
    IN  \A i \in 1..NRows(out) :
            LET B == Bucket(out, i)
                marked == {j \in B : ~IsNull(new[j])}
            IN  /\ Cardinality(marked) = 1
                /\ \A j \in marked :
                      /\ \A k \in B : dates[k] <= dates[j]
                      /\ new[j] = BucketReturn(out, B)

SMADone == pc = "done" /\ op = "simple_moving_average"

EMADone == pc = "done" /\ op = "exp_moving_average"

\* The call's arguments are of the documented types (str or list of str,
\* int or list of int).
WellTyped ==
    /\ ~check_and_convert_value_to_list(args.from_cols, "str").err
    /\ ~check_and_convert_value_to_list(args.windows, "int").err

\* The requested source fields and windows, as sequences.
ReqCols == Raw(check_and_convert_value_to_list(args.from_cols, "str").val)

ReqWins == Raw(check_and_convert_value_to_list(args.windows, "int").val)

\* The name the claims give the new column: the suffix only when more than
\* one source field was requested.
ClaimedName(kind, w, c) ==
    IF Len(ReqCols) > 1 THEN <<kind, w, c>> ELSE <<kind, w>>

NoNulls(xs) == \A i \in 1..Len(xs) : ~IsNull(xs[i])

\* The arithmetic mean of xs[lo..hi].
MeanOf(xs, lo, hi) == RDiv(RSum(SubSeq(xs, lo, hi)), R(hi - lo + 1))

\* C6: for every source field F and window w >= 1, simple_moving_average
\* gives null on the first w-1 rows and the mean of the trailing w values of
\* F on every later row; with w = 1 the new column equals F.
C6_SimpleMovingAverage ==
    (SMADone /\ WellTyped /\ result.kind = "ok")
    => \A c \in Range(ReqCols), w \in Range(ReqWins) :
          w >= 1 =>
            LET F == Col(df_input, c)
                new == Col(result.df, ClaimedName("SMA", w, c))
            IN  /\ Len(new) = Len(F)
                /\ \A t \in 1..Len(F) :
                      IF t < w THEN IsNull(new[t])
                      ELSE new[t] = MeanOf(F, t - w + 1, t)
                /\ w = 1 => new = F

\* C6 witness: a window of 2 or more over a series longer than the window,
\* with a non-null mean on the last row that differs from the last value.
C6_Witness ==
    /\ SMADone /\ WellTyped /\ result.kind = "ok"
    /\ \E c \in Range(ReqCols), w \in Range(ReqWins) :
          /\ w >= 2
          /\ NRows(df_input) > w
          /\ LET new == Col(result.df, ClaimedName("SMA", w, c))
                 n == NRows(df_input)
             IN  /\ IsNull(new[1])
                 /\ ~IsNull(new[n])
                 /\ new[n] # Col(df_input, c)[n]

\* q to the k-th power (q^0 = 1).
RECURSIVE QPow(_, _)
QPow(q, k) == IF k = 0 THEN QInt(1) ELSE QMul(q, QPow(q, k - 1))

RECURSIVE QSum(_)
QSum(qs) == IF qs = <<>> THEN QInt(0) ELSE QAdd(qs[1], QSum(Tail(qs)))

\* The exponentially weighted mean of xs[1..t] with the weight
\* (1 - alpha)^(t - i) on xs[i], alpha = 2 / (w + 1), over the non-null
\* values; null when there is none.
WeightedMean(xs, w, t) ==
    LET f == [n |-> ZFromInt(w - 1), d |-> NFromInt(w + 1)]
        obs == SelectSeq([i \in 1..t |-> i], LAMBDA i : ~QIsNull(xs[i]))
        num == QSum([k \in 1..Len(obs) |-> QMul(QPow(f, t - obs[k]), xs[obs[k]])])
        den == QSum([k \in 1..Len(obs) |-> QPow(f, t - obs[k])])
    IN  IF obs = <<>> THEN QNaN ELSE QDiv(num, den)

\* C7 as claimed: for a source field without nulls and every span w,
\* exp_moving_average returns a table whose new column is non-null on every
\* row and starts with the first value of the source field.
C7_EverySpan ==
    (EMADone /\ WellTyped
        /\ \A c \in Range(ReqCols) : NoNulls(Col(df_input, c)))
    => /\ result.kind = "ok"
       /\ \A c \in Range(ReqCols), w \in Range(ReqWins) :
             LET new == Col(result.df, ClaimedName("EMA", w, c))
             IN  /\ \A t \in 1..Len(new) : ~QIsNull(new[t])
                 /\ QEq(new[1], ToBig(Col(df_input, c)[1]))

\* C7, amended: for a source field without nulls and every span w >= 1,
\* exp_moving_average returns a table whose new column is non-null on every
\* row and starts with the first value of the source field (a span below 1
\* is rejected with an error).
C7_SpanAtLeastOne ==
    (EMADone /\ WellTyped
        /\ \A c \in Range(ReqCols) : NoNulls(Col(df_input, c))
        /\ \A w \in Range(ReqWins) : w >= 1)
    => /\ result.kind = "ok"
       /\ \A c \in Range(ReqCols), w \in Range(ReqWins) :
             LET new == Col(result.df, ClaimedName("EMA", w, c))
             IN  /\ Len(new) = NRows(df_input)
                 /\ \A t \in 1..Len(new) : ~QIsNull(new[t])
                 /\ QEq(new[1], ToBig(Col(df_input, c)[1]))

\* C7 witness: a span of 2 or more over a null-free series of 3 or more
\* rows whose values are not all equal.
C7_Witness ==
    /\ EMADone /\ WellTyped /\ result.kind = "ok"
    /\ NRows(df_input) >= 3
    /\ \E c \in Range(ReqCols), w \in Range(ReqWins) :
          /\ w >= 2
          /\ NoNulls(Col(df_input, c))
          /\ Col(df_input, c)[1] # Col(df_input, c)[2]
          /\ ~QIsNull(Col(result.df, ClaimedName("EMA", w, c))[3])

\* C8 as claimed: EMA[0] = x[0] and EMA[t] = alpha * x[t] + (1 - alpha) *
\* EMA[t-1] with alpha = 2 / (span + 1) on every later row.
C8_Recurrence ==
    (EMADone /\ WellTyped /\ result.kind = "ok")
    => \A c \in Range(ReqCols), w \in Range(ReqWins) :
          NoNulls(Col(df_input, c)) =>
            LET x == BigCol(Col(df_input, c))
                ema == Col(result.df, ClaimedName("EMA", w, c))
                alpha == [n |-> ZFromInt(2), d |-> NFromInt(w + 1)]
            IN  /\ QEq(ema[1], x[1])
                /\ \A t \in 2..Len(x) :
                      QEq(ema[t], QAdd(QMul(alpha, x[t]),
                                       QMul(QSub(QInt(1), alpha), ema[t - 1])))

\* C8, amended: EMA[t] is the weighted mean of x[0..t] with the weight
\* (1 - alpha)^(t - i) on x[i], alpha = 2 / (span + 1): the sum of the
\* weighted values divided by the sum of the weights (so EMA[0] = x[0]).
C8_WeightedMean ==
    (EMADone /\ WellTyped /\ result.kind = "ok")
    => \A c \in Range(ReqCols), w \in Range(ReqWins) :
          NoNulls(Col(df_input, c)) =>
            LET x == BigCol(Col(df_input, c))
                ema == Col(result.df, ClaimedName("EMA", w, c))
            IN  /\ Len(ema) = Len(x)
                /\ \A t \in 1..Len(x) : QEq(ema[t], WeightedMean(x, w, t))

\* C8 witness: a span of 2 or more over a null-free series of 3 rows whose
\* last average differs from the last value.
C8_Witness ==
    /\ EMADone /\ WellTyped /\ result.kind = "ok"
    /\ NRows(df_input) >= 3
    /\ \E c \in Range(ReqCols), w \in Range(ReqWins) :
          /\ w >= 2
          /\ NoNulls(Col(df_input, c))
          /\ ~QEq(Col(result.df, ClaimedName("EMA", w, c))[3],
                  ToBig(Col(df_input, c)[3]))

\* The columns of out that df_input does not have.
NewCols(out) == Range(ColNames(out)) \ Range(ColNames(df_input))

\* C10: both averages add one column per (source field, window) pair, named
\* SMA_<w> / EMA_<w>, with the suffix (<field>) exactly when more than one
\* source field was requested; the columns of the input stay in place.
C10_ColumnNames ==
    ((SMADone \/ EMADone) /\ WellTyped /\ result.kind = "ok")
    => LET kind == IF op = "simple_moving_average" THEN "SMA" ELSE "EMA"
           pairs == Range(ReqCols) \X Range(ReqWins)
       IN  /\ NewCols(result.df)
                = {IF Len(ReqCols) > 1 THEN <<kind, pr[2], pr[1]>>
                   ELSE <<kind, pr[2]>> : pr \in pairs}
           /\ Cardinality(NewCols(result.df)) = Cardinality(pairs)
           /\ Len(result.df) = Len(df_input) + Cardinality(pairs)
           /\ SubSeq(ColNames(result.df), 1, Len(df_input)) = ColNames(df_input)
           /\ Len(ReqCols) = 1 => \A c \in NewCols(result.df) : Len(c) = 2

\* C10 witnesses: one source field with two windows (no suffix), and two
\* source fields (suffix), for either average.
C10_Witness ==
    /\ (SMADone \/ EMADone) /\ WellTyped /\ result.kind = "ok"
    /\ args.from_cols.ty = "list" /\ Len(ReqCols) = 1
    /\ Cardinality(Range(ReqWins)) = 2
    /\ Cardinality(NewCols(result.df)) = 2

\* ------------------------------------------------------------------------
\* Properties of macd.
\* ------------------------------------------------------------------------

MacdDone == pc = "done" /\ op = "macd" /\ result.kind = "ok"

\* The price field of the call (a name, or a one-element list of names).
PriceField == Raw(check_and_convert_value_to_list(args.price_column, "str").val)[1]

\* The w-span exponential average of the fractions xs.
EMAOf(xs, w) == [t \in 1..Len(xs) |-> WeightedMean(xs, w, t)]

\* C9: the result carries EMA_12, EMA_26, MACD, DEA and OSC; on every row
\* MACD = EMA_12 - EMA_26 of the price field, DEA is the 9-span exponential
\* average of MACD, and OSC = MACD - DEA.
C9_Macd ==
    MacdDone
    => LET out == result.df
           n == NRows(df_input)
           price == BigCol(Col(df_input, PriceField))
           ema12 == EMAOf(price, 12)
           ema26 == EMAOf(price, 26)
       IN  /\ \A c \in {<<"EMA", 12>>, <<"EMA", 26>>, <<"MACD">>, <<"DEA">>, <<"OSC">>} :
                 HasCol(out, c) /\ Len(Col(out, c)) = n
           /\ \A i \in 1..n :
                 /\ QEq(Col(out, <<"EMA", 12>>)[i], ema12[i])
                 /\ QEq(Col(out, <<"EMA", 26>>)[i], ema26[i])
                 /\ QEq(Col(out, <<"MACD">>)[i], QSub(ema12[i], ema26[i]))
                 /\ QEq(Col(out, <<"DEA">>)[i],
                        EMAOf(Col(out, <<"MACD">>), 9)[i])
                 /\ QEq(Col(out, <<"OSC">>)[i],
                        QSub(Col(out, <<"MACD">>)[i], Col(out, <<"DEA">>)[i]))

\* C9 witness: three rows with a non-zero MACD and a non-zero OSC on the
\* last row.
C9_Witness ==
    /\ MacdDone
    /\ NRows(df_input) >= 3
    /\ Col(result.df, <<"MACD">>)[3].n.s # 0
    /\ Col(result.df, <<"OSC">>)[3].n.s # 0
    /\ ~QEq(Col(result.df, <<"DEA">>)[3], Col(result.df, <<"MACD">>)[3])

\* ------------------------------------------------------------------------
\* Properties of the Portfolio constructor.
\* ------------------------------------------------------------------------

PortfolioDone == pc = "done" /\ op = "Portfolio" /\ portfolio.kind = "ok"

\* The trades <<date, quantity, price>> the dictionary gives for sym.
TradesOf(sym) ==
    d_portfolio[CHOOSE e \in 1..Len(d_portfolio) : d_portfolio[e].sym = sym].data

\* The sum of f over the trades of ts that satisfy keep.
SumOver(ts, keep(_), f(_)) ==
    RSum([k \in 1..Len(ts) |-> IF keep(ts[k]) THEN f(ts[k]) ELSE R(0)])

IsBuy(t) == t[2] > 0

IsSell(t) == t[2] < 0

\* The provider's latest close of sym on the day of the construction.
LatestClose(sym) == Market(Lower(sym))[today][2]

\* The row of the summary table for sym.
SummaryOf(sym) ==
    portfolio.summary_table[CHOOSE k \in 1..Len(portfolio.summary_table) :
                                portfolio.summary_table[k].Stock = sym]

\* The quantities of the summary of sym, from the dictionary's trades.
Expected(sym) ==
    LET ts == TradesOf(sym)
        total_bought == SumOver(ts, IsBuy, LAMBDA t : R(t[2]))
        total_paid == SumOver(ts, IsBuy, LAMBDA t : RMul(R(t[2]), t[3]))
        average_paid == RDiv(total_paid, total_bought)
        total_sold == SumOver(ts, IsSell, LAMBDA t : R(t[2]))
        proceeds == SumOver(ts, IsSell, LAMBDA t : RMul(R(-t[2]), t[3]))
        remaining_holding == RAdd(total_bought, total_sold)
        remaining_invested == RMul(remaining_holding, average_paid)
        remaining_unrealized == RMul(remaining_holding, LatestClose(sym))
        gain == RSub(remaining_unrealized, remaining_invested)
    IN  [total_bought |-> total_bought, total_paid |-> total_paid,
         average_paid |-> average_paid, total_sold |-> total_sold,
         proceeds |-> proceeds, remaining_holding |-> remaining_holding,
         remaining_invested |-> remaining_invested,
         remaining_unrealized |-> remaining_unrealized, gain |-> gain,
         percent_gain |-> RDiv(gain, remaining_invested)]

\* sym has a buy and a remaining position other than zero.
C2_Covers(sym) ==
    /\ \E k \in 1..Len(TradesOf(sym)) : IsBuy(TradesOf(sym)[k])
    /\ Expected(sym).remaining_holding # R(0)

ExampleLedger ==
    << <<20200130, 20, R(1)>>, <<20200215, -10, R(2)>>, <<20200310, 100, <<3, 2>>>> >>

\* C2: for every symbol with at least one buy and a remaining position other
\* than zero, the summary row holds total_bought = the sum of the positive
\* quantities, average_paid = (sum of quantity*price over the buys) /
\* total_bought, total_sold = the sum of the negative quantities,
\* remaining_holding = total_bought + total_sold, remaining_invested =
\* remaining_holding * average_paid, remaining_unrealized = remaining_holding
\* * current_price, gain = remaining_unrealized - remaining_invested,
\* percent_gain = gain / remaining_invested (as a percentage) and the realized
\* amount = the proceeds of the sells, not negative; the amounts are reported
\* to two decimals.  The ledger [(d1,+20,1.00),(d2,-10,2.00),(d3,+100,1.50)]
\* at the current price 3.00 gives holding 110, invested 155.83, unrealized
\* 330, gain 174.17 and realized proceeds 20.
C2_SummarizeStock ==
    PortfolioDone =>
        \A e \in 1..Len(d_portfolio) :
            LET sym == d_portfolio[e].sym
                row == SummaryOf(sym)
                x == Expected(sym)
            IN  /\ C2_Covers(sym) =>
                    /\ row.TotalBought = x.total_bought
                    /\ row.AvgBoughtPrice = Round2(x.average_paid)
                    /\ row.TotalSold = x.total_sold
                    /\ row.CurrentHolding = x.remaining_holding
                    /\ row.TotalInvested = Round2(x.total_paid)
                    /\ row.CurrentInvested = Round2(x.remaining_invested)
                    /\ row.CurrentPrice = Round2(LatestClose(sym))
                    /\ row.UnrealizedAmount = Round2(x.remaining_unrealized)
                    /\ row.UnrealizedGain = Round2(x.gain)
                    /\ row.PctUnrealizedGain = Round2(RMul(x.percent_gain, R(100)))
                    /\ row.RealizedAmount = Round2(x.proceeds)
                    /\ ~RGt(R(0), row.RealizedAmount)
                /\ (d_portfolio[e].data = ExampleLedger /\ LatestClose(sym) = R(3)) =>
                    /\ row.CurrentHolding = R(110)
                    /\ row.CurrentInvested = <<15583, 100>>
                    /\ row.UnrealizedAmount = R(330)
                    /\ row.UnrealizedGain = <<17417, 100>>
                    /\ row.RealizedAmount = R(20)

\* The example ledger has been summarized at the current price 3.00.
C2_Witness ==
    /\ PortfolioDone
    /\ Len(d_portfolio) = 1
    /\ d_portfolio[1].data = ExampleLedger
    /\ LatestClose(d_portfolio[1].sym) = R(3)
    /\ C2_Covers(d_portfolio[1].sym)
    /\ SummaryOf(d_portfolio[1].sym).CurrentInvested = <<15583, 100>>

TradeCol(c) == Col(portfolio.df_trades, <<c>>)

TradeRows == 1..NRows(portfolio.df_trades)

\* The row <<sym, date, quantity, price>> of the trade table.
TradeRow(i) ==
    <<TradeCol("Stock")[i], TradeCol("transact_date")[i],
      TradeCol("transact_quantity")[i], TradeCol("transact_price")[i]>>

\* How many rows of the sequence of rows rs equal r.
CountOf(rs, r) == Cardinality({i \in 1..Len(rs) : rs[i] = r})

\* The input rows with the quantity as the table holds it.
InputRows ==
    [k \in 1..Len(ls_trades(d_portfolio)) |->
        LET r == ls_trades(d_portfolio)[k] IN <<r[1], r[2], R(r[3]), r[4]>>]

\* No two trades of sym have the same date.
DistinctDates(sym) ==
    \A j, k \in 1..Len(TradesOf(sym)) :
        j # k => TradesOf(sym)[j][1] # TradesOf(sym)[k][1]

\* C3: the rows of the trade table are the input trades in ascending
\* transaction date, whatever the order of the tuples in the dictionary, and
\* the Holding of a row is the sum of the signed quantities of the same
\* symbol's rows up to and including that row (for a symbol without two
\* trades on one date: of its trades dated up to the row's date); the rows
\* of other symbols do not enter it.
C3_Holding ==
    PortfolioDone =>
        /\ \A i, j \in TradeRows :
              i < j => TradeCol("transact_date")[i] <= TradeCol("transact_date")[j]
        /\ NRows(portfolio.df_trades) = Len(InputRows)
        /\ \A i \in TradeRows :
              CountOf([k \in 1..NRows(portfolio.df_trades) |-> TradeRow(k)], TradeRow(i))
                  = CountOf(InputRows, TradeRow(i))
        /\ \A i \in TradeRows :
              LET sym == TradeCol("Stock")[i]
                  own == SelectSeq([j \in 1..i |-> j],
                                   LAMBDA j : TradeCol("Stock")[j] = sym)
              IN  /\ TradeCol("Holding")[i]
                        = RSum([k \in 1..Len(own) |->
                                   TradeCol("transact_quantity")[own[k]]])
                  /\ DistinctDates(sym) =>
                        TradeCol("Holding")[i]
                            = SumOver(TradesOf(sym),
                                      LAMBDA t : t[1] <= TradeCol("transact_date")[i],
                                      LAMBDA t : R(t[2]))

\* Two symbols were traded, the first symbol's tuples were given out of date
\* order, and a row of the other symbol stands between two of its rows.
C3_Witness ==
    /\ PortfolioDone
    /\ Len(d_portfolio) = 2
    /\ \E e \in 1..2 :
          /\ Len(d_portfolio[e].data) >= 2
          /\ d_portfolio[e].data[1][1] > d_portfolio[e].data[2][1]
    /\ \E i, j, k \in TradeRows :
          /\ i < j /\ j < k
          /\ TradeCol("Stock")[i] = TradeCol("Stock")[k]
          /\ TradeCol("Stock")[j] # TradeCol("Stock")[i]
          /\ TradeCol("Holding")[k] # TradeCol("Holding")[i]

\* C4: on every row of the trade table Realized is 0 when the row is a buy
\* (quantity > 0) and the proceeds |quantity| * price when it is a sell, and
\* it is never negative.
C4_Realized ==
    PortfolioDone =>
        \A i \in TradeRows :
            LET t == TradeRow(i)
            IN  /\ RGt(t[3], R(0)) => TradeCol("Realized")[i] = R(0)
                /\ RGt(R(0), t[3]) =>
                      TradeCol("Realized")[i] = RMul(R(Abs(t[3][1])), t[4])
                /\ ~RGt(R(0), TradeCol("Realized")[i])

\* The table has a buy row and a sell row with proceeds.
C4_Witness ==
    /\ PortfolioDone
    /\ \E i, j \in TradeRows :
          /\ TradeCol("Action")[i] = "Buy"
          /\ TradeCol("Action")[j] = "Sell"
          /\ RGt(TradeCol("Realized")[j], R(0))

\* C5: on every row of the trade table Unrealized = max(0, Holding *
\* current_price), current_price being the symbol's latest close whatever
\* the date of the row; a row with a negative Holding has Unrealized 0.
C5_Unrealized ==
    PortfolioDone =>
        \A i \in TradeRows :
            LET h == TradeCol("Holding")[i]
                v == RMul(h, LatestClose(TradeCol("Stock")[i]))
            IN  /\ TradeCol("Unrealized")[i] = IF RGt(v, R(0)) THEN v ELSE R(0)
                /\ RGt(R(0), h) => TradeCol("Unrealized")[i] = R(0)

\* The latest close differs from the first stored close, one row has a
\* negative Holding and a later row of the same symbol a positive one.
C5_Witness ==
    /\ PortfolioDone
    /\ \E i, j \in TradeRows :
          /\ i < j
          /\ TradeCol("Stock")[i] = TradeCol("Stock")[j]
          /\ RGt(R(0), TradeCol("Holding")[i])
          /\ RGt(TradeCol("Unrealized")[j], R(0))
          /\ LatestClose(TradeCol("Stock")[i]) # Market(Lower(TradeCol("Stock")[i]))[1][2]

\* ------------------------------------------------------------------------
\* Properties of calculate_daily_returns.
\* ------------------------------------------------------------------------

DailyDone == pc = "done" /\ op = "calculate_daily_returns"

\* Every price of the input is the same number.
ConstantPrices ==
    \A i, j \in 1..NRows(df_input) :
        Col(df_input, <<"Close">>)[i] = Col(df_input, <<"Close">>)[j]

\* The first row is null and every later row is (price[t] - price[t-1]) /
\* price[t-1]: the value times the previous price is the change of price.
DailyFormula ==
    LET p == Col(df_input, <<"Close">>)
        out == Col(result.df, <<"DailyReturns">>)
    IN  /\ Len(out) = Len(p)
        /\ IsNull(out[1])
        /\ \A t \in 2..Len(p) :
              /\ out[t] = RDiv(RSub(p[t], p[t - 1]), p[t - 1])
              /\ p[t - 1] # R(0) =>
                    /\ IsFinite(out[t])
                    /\ RMul(out[t], p[t - 1]) = RSub(p[t], p[t - 1])

ZeroAfterFirst ==
    \A t \in 2..NRows(result.df) : Col(result.df, <<"DailyReturns">>)[t] = R(0)

\* C11 as claimed: the first row is null, every later row is (price[t] -
\* price[t-1]) / price[t-1], and on a constant series of any non-negative
\* price every row after the first is 0.
C11_ConstantNonNegative ==
    DailyDone => /\ DailyFormula
                 /\ ConstantPrices => ZeroAfterFirst

\* C11, amended: the first row is null, every later row is (price[t] -
\* price[t-1]) / price[t-1], and on a constant series of any positive price
\* every row after the first is 0.
C11_ConstantPositive ==
    DailyDone =>
        /\ DailyFormula
        /\ (ConstantPrices /\ \A i \in 1..NRows(df_input) :
                                 RGt(Col(df_input, <<"Close">>)[i], R(0)))
              => ZeroAfterFirst

\* C11 witness: a constant series of three rows at the price 2.
C11_Witness ==
    /\ DailyDone
    /\ NRows(df_input) = 3
    /\ ConstantPrices
    /\ Col(df_input, <<"Close">>)[1] = R(2)
    /\ Col(result.df, <<"DailyReturns">>)[3] = R(0)

\* ------------------------------------------------------------------------
\* Properties of reduce_data_period.
\* ------------------------------------------------------------------------

ReduceDone == pc = "done" /\ op = "reduce_data_period"

IsMax(period) == period = <<"m", "a", "x">>

Units == {"d", "m", "y"}

\* The period is a count n (digits, possibly signed) and a unit.
IsCounted(period) ==
    /\ Len(period) >= 2
    /\ period[Len(period)] \in Units
    /\ LET lead == SubSeq(period, 1, Len(period) - 1)
           ds == IF lead[1] \in {"+", "-"} THEN Tail(lead) ELSE lead
       IN  ds # <<>> /\ \A k \in 1..Len(ds) : IsDigit(ds[k])

CountOfPeriod(period) == PyIntOfStr(SubSeq(period, 1, Len(period) - 1)).val

\* The number of the day date, counted from the start of the year 2000.
RECURSIVE DaysBeforeYear(_)
DaysBeforeYear(y) ==
    IF y <= 2000 THEN 0
    ELSE DaysBeforeYear(y - 1) + (IF IsLeap(y - 1) THEN 366 ELSE 365)

RECURSIVE DaysBeforeMonth(_, _)
DaysBeforeMonth(y, m) ==
    IF m <= 1 THEN 0 ELSE DaysBeforeMonth(y, m - 1) + DaysInMonth(y, m - 1)

DayNumber(date) ==
    DaysBeforeYear(YearOf(date)) + DaysBeforeMonth(YearOf(date), MonthOf(date))
        + DayOf(date)

MonthNumber(date) == YearOf(date) * 12 + MonthOf(date)

\* The smaller of the day of month of latest and the length of the month
\* numbered mn.
ClippedDay(latest, mn) ==
    LET len == DaysInMonth((mn - 1) \div 12, ((mn - 1) % 12) + 1)
    IN  IF DayOf(latest) > len THEN len ELSE DayOf(latest)

\* date >= latest - n units.
Within(date, latest, n, unit) ==
    IF unit = "d" THEN DayNumber(date) >= DayNumber(latest) - n
    ELSE LET back == IF unit = "m" THEN n ELSE 12 * n
             mn == MonthNumber(latest) - back
         IN  \/ MonthNumber(date) > mn
             \/ MonthNumber(date) = mn /\ DayOf(date) >= ClippedDay(latest, mn)

\* The rows of the input that satisfy keep, in their order.
InputRowsWhere(keep(_)) ==
    TakeRows(df_input, SelectSeq([i \in 1..NRows(df_input) |-> i], keep))

LatestDate ==
    CHOOSE d \in Range(Col(df_input, <<"Date">>)) :
        \A e \in Range(Col(df_input, <<"Date">>)) : e <= d

\* C12: for a period of a count n and a unit d, m or y, reduce_data_period
\* returns exactly the rows whose date >= max(date) - n units, in their
\* order (so for n >= 0 the rows of the latest date are kept); for 'max' it
\* returns all the rows unchanged.
C12_ReduceDataPeriod ==
    ReduceDone =>
        /\ IsMax(args.period) => result = Ok(df_input)
        /\ IsCounted(args.period) =>
              LET n == CountOfPeriod(args.period)
                  unit == args.period[Len(args.period)]
                  dates == Col(df_input, <<"Date">>)
              IN  /\ result.kind = "ok"
                  /\ result.df = InputRowsWhere(
                                     LAMBDA i : Within(dates[i], LatestDate, n, unit))
                  /\ n >= 0 => LatestDate \in Range(Col(result.df, <<"Date">>))

\* C12 witness: a counted period kept some rows and dropped others, the row
\* kept last lying exactly on the cutoff at the end of February.
C12_Witness ==
    /\ ReduceDone
    /\ IsCounted(args.period)
    /\ result.kind = "ok"
    /\ NRows(result.df) = 2
    /\ NRows(df_input) = 3
    /\ args.period = <<"1", "m">>
    /\ LatestDate = 20200331
    /\ 20200229 \in Range(Col(result.df, <<"Date">>))
    /\ 20200228 \in Range(Col(df_input, <<"Date">>))

\* The period is neither 'max' nor a str with a last character d, m or y
\* and a leading part that int() parses.
IsInvalidPeriod(period) ==
    /\ ~IsMax(period)
    /\ \/ period = <<>>
       \/ period[Len(period)] \notin Units
       \/ PyIntOfStr(SubSeq(period, 1, Len(period) - 1)).err

\* C13: for every period other than 'max' whose last character is not d, m
\* or y, or whose leading part is not a parsable integer, the empty str
\* included, reduce_data_period returns no table and raises the one error
\* kind of an invalid period (ValueError).
C13_InvalidPeriod ==
    (ReduceDone /\ IsInvalidPeriod(args.period)) =>
        /\ result.kind = "error"
        /\ result.exc = "ValueError"

\* C13 for the periods that have a last character: they raise ValueError,
\* be it for the unit or for the count.
C13_NonEmptyInvalidPeriod ==
    (ReduceDone /\ IsInvalidPeriod(args.period) /\ args.period # <<>>) =>
        /\ result.kind = "error"
        /\ result.exc = "ValueError"

\* C13 witness: the empty period raised, with an error that is not the
\* ValueError of the other invalid periods.
C13_Witness ==
    /\ ReduceDone
    /\ args.period = <<>>
    /\ result.kind = "error"
    /\ result.exc = "IndexError"

\* ------------------------------------------------------------------------
\* Properties of check_and_convert_value_to_list.
\* ------------------------------------------------------------------------

NormalizeDone == pc = "done" /\ op = "check_and_convert_value_to_list"

IsList(v) == v.ty = "list"

IsOfType(v, t) == v.ty = t

\* C14: a scalar of the expected type is wrapped into the one-element list
\* of it; a list whose every element is of the expected type is returned
\* with the same elements in the same order; a scalar of another type, or a
\* list with an element of another type, raises and nothing is returned.
C14_CheckAndConvert ==
    NormalizeDone =>
        LET v == args.val_or_list
            t == args.expected_type
        IN  /\ (~IsList(v) /\ IsOfType(v, t)) =>
                  result.kind = "ok" /\ Len(result.val) = 1 /\ result.val[1] = v
            /\ (IsList(v) /\ \A k \in 1..Len(v.xs) : IsOfType(v.xs[k], t)) =>
                  result.kind = "ok" /\ result.val = v.xs
            /\ (~IsList(v) /\ ~IsOfType(v, t)) => result.kind = "error"
            /\ (IsList(v) /\ \E k \in 1..Len(v.xs) : ~IsOfType(v.xs[k], t)) =>
                  result.kind = "error"

\* C14 witness: the list ["AAPL", 5] checked for str has raised.
C14_Witness ==
    /\ NormalizeDone
    /\ args.expected_type = "str"
    /\ IsList(args.val_or_list)
    /\ Len(args.val_or_list.xs) = 2
    /\ args.val_or_list.xs[1] = PyStr(<<"AAPL">>)
    /\ args.val_or_list.xs[2] = PyInt(5)
    /\ result.kind = "error"

\* ------------------------------------------------------------------------
\* Properties of the transformations as a family.
\* ------------------------------------------------------------------------

FrameCalls == CallsOf(result)

\* The outcome of the transformation name on the table df, taken alone.
AloneOn(name, df) ==
    CASE name = "simple_moving_average" ->
            simple_moving_average(df, args.from_cols, args.windows)
      [] name = "exp_moving_average" ->
            exp_moving_average(df, args.from_cols, args.windows)
      [] name = "macd" -> macd(df, args.from_cols)
      [] name = "calculate_daily_returns" ->
            Ok(calculate_daily_returns(df, args.price_col))
      [] name = "calculate_grouped_returns" ->
            IF groupby_error(df, args.group_cols) = "none"
            THEN Ok(calculate_grouped_returns(df, args.new_col_name,
                                              args.price_col, args.group_cols))
            ELSE RaisedOf(groupby_error(df, args.group_cols))
      [] name = "add_year_month_quarter" ->
            Ok(add_year_month_quarter(df, args.date_col))
      [] name = "reduce_data_period" ->
            reduce_data_period(df, args.date_col, args.period)

\* C15: after every call of a transformation the table passed to it has the
\* columns and the values it had before, and each of several calls on the
\* same table, in any order, returns what it returns on that table alone.
C15_InputUnchanged ==
    /\ FrameCalls # <<>> => df_input = args.before
    /\ \A k \in 1..Len(FrameCalls) :
          FrameCalls[k].out = AloneOn(FrameCalls[k].op, args.before)

\* C15 witness: a two-row table was passed to add_year_month_quarter and then
\* to calculate_daily_returns, both returned their columns, and the table
\* has neither.
C15_Witness ==
    /\ pc = "done"
    /\ Len(FrameCalls) = 2
    /\ Len(Col(df_input, <<"Date">>)) = 2
    /\ FrameCalls[1].op = "add_year_month_quarter"
    /\ HasCol(FrameCalls[1].out.df, <<"Q">>)
    /\ FrameCalls[2].op = "calculate_daily_returns"
    /\ HasCol(FrameCalls[2].out.df, <<"DailyReturns">>)
    /\ ~HasCol(df_input, <<"Q">>)
    /\ ~HasCol(df_input, <<"DailyReturns">>)

\* ------------------------------------------------------------------------
\* Properties of the summary of a symbol without buys or without a
\* remaining investment.
\* ------------------------------------------------------------------------

\* The constructor has returned or raised.
PortfolioReturned == pc = "done" /\ op = "Portfolio"

\* The dictionary gives sym no trade with a quantity above zero.
NoBuy(sym) == \A k \in 1..Len(TradesOf(sym)) : ~IsBuy(TradesOf(sym)[k])

\* C16: when the ledger of a symbol has no buy, summarizing fails with a
\* division by zero at average_paid, and no summary row with an undefined
\* average price is produced.
C16_NoBuyRaises ==
    PortfolioReturned =>
        \A e \in 1..Len(d_portfolio) :
            NoBuy(d_portfolio[e].sym) =>
                /\ portfolio.kind = "error"
                /\ portfolio.summary_table = <<>>

\* A portfolio of the single symbol AA with the single trade (-10 at 2.00)
\* has been built, and its summary row has the average price NaN.
C16_Witness ==
    /\ PortfolioDone
    /\ Len(d_portfolio) = 1
    /\ d_portfolio[1].data = << <<20200215, -10, R(2)>> >>
    /\ NoBuy(d_portfolio[1].sym)
    /\ SummaryOf(d_portfolio[1].sym).AvgBoughtPrice = NaN
    /\ SummaryOf(d_portfolio[1].sym).PctUnrealizedGain = NaN

SoldOutLedger ==
    << <<20200130, 20, R(1)>>, <<20200215, -10, R(2)>>, <<20200215, -10, R(2)>> >>

\* C17: when the remaining invested capital of a symbol is 0, the percent
\* gain is a division by zero that is raised to the caller, and no summary
\* row with a '% Unrealized Gain' is produced for the symbol.
C17_ZeroInvestedRaises ==
    PortfolioReturned =>
        \A e \in 1..Len(d_portfolio) :
            Expected(d_portfolio[e].sym).remaining_invested = R(0) =>
                /\ portfolio.kind = "error"
                /\ \A k \in 1..Len(portfolio.summary_table) :
                      portfolio.summary_table[k].Stock # d_portfolio[e].sym

\* A portfolio of the single symbol AA, bought 20 and sold 10 twice, has
\* been built: nothing remains invested and the summary row has the
\* percent gain NaN.
C17_Witness ==
    /\ PortfolioDone
    /\ Len(d_portfolio) = 1
    /\ d_portfolio[1].data = SoldOutLedger
    /\ Expected(d_portfolio[1].sym).remaining_invested = R(0)
    /\ SummaryOf(d_portfolio[1].sym).CurrentInvested = R(0)
    /\ SummaryOf(d_portfolio[1].sym).PctUnrealizedGain = NaN

\* ------------------------------------------------------------------------
\* Properties of dividend_summary.
\* ------------------------------------------------------------------------

DividendDone == pc = "done" /\ op = "dividend_summary"

\* The mean of the yields of the rows of df_input that have a yield present
\* and positive and a year in years.
MeanOfYears(years) ==
    LET year == Col(df_input, <<"year">>)
        yields == Col(df_input, args.div_type)
        rows == SelectSeq([i \in 1..Len(year) |-> i],
                          LAMBDA i : /\ yields[i] # NaN
                                     /\ RGt(yields[i], R(0))
                                     /\ year[i] \in years)
    IN  SeriesMean([k \in 1..Len(rows) |-> yields[rows[k]]])

\* C18: with Y the current year, over the rows with a yield present and
\* positive, the summary holds the mean over all of them, the mean over the
\* rows of the years Y-5..Y-1 and the mean over the rows of the year Y-1; the
\* rows of the year Y enter the overall mean only.
C18_CompleteYears ==
    DividendDone =>
        /\ result.d_div.OverallAverage = MeanOfYears(Int)
        /\ result.d_div.Last5YearsAverage =
              MeanOfYears((args.this_year - 5)..(args.this_year - 1))
        /\ result.d_div.LastYearAverage =
              MeanOfYears({args.this_year - 1})

\* Called in 2021 on the yields 0.01 of 2020 and 0.03 of 2021, the summary
\* has the 2020 average 0.02: the row of the current year is in it.
C18_Witness ==
    /\ DividendDone
    /\ args.this_year = 2021
    /\ Col(df_input, <<"year">>) = <<2020, 2021>>
    /\ Col(df_input, <<"FracDividends">>) = << <<1, 100>>, <<3, 100>> >>
    /\ result.d_div.LastYear = 2020
    /\ result.d_div.LastYearAverage = <<1, 50>>
    /\ result.d_div.Last5YearsAverage = <<1, 50>>

\* ------------------------------------------------------------------------
\* Properties of average_returns_summary.
\* ------------------------------------------------------------------------

AveragedDone == pc = "done" /\ op = "average_returns_summary"

\* s is word (written in lower case) in some letter case.
InAnyCase(s, word) ==
    /\ Len(s) = Len(word)
    /\ \A i \in 1..Len(s) :
          \/ s[i] = word[i]
          \/ \E k \in 1..Len(AsciiLowercase) :
                AsciiLowercase[k] = word[i] /\ AsciiUppercase[k] = s[i]

\* The three periods: the word, the capitalised name in the column, and the
\* columns of the bucket.
AveragingPeriods ==
    { [word |-> <<"m", "o", "n", "t", "h", "l", "y">>, name |-> "-averaged-Monthly",
       bucket |-> << <<"year">>, <<"month">> >>],
      [word |-> <<"q", "u", "a", "r", "t", "e", "r", "l", "y">>, name |-> "-averaged-Quarterly",
       bucket |-> << <<"Q">> >>],
      [word |-> <<"a", "n", "n", "u", "a", "l", "l", "y">>, name |-> "-averaged-Annually",
       bucket |-> << <<"year">> >>] }

\* C19: for the period monthly, quarterly or annually in any letter case
\* the result is the table of Date, base_col, Q, year and month with the
\* grouped returns of base_col over the period's bucket in the column
\* '<base_col>-averaged-<Period>'; every other period str raises ValueError.
C19_AverageReturnsSummary ==
    AveragedDone =>
        /\ \A p \in AveragingPeriods :
              InAnyCase(args.avg_period, p.word) =>
                 /\ result.kind = "ok"
                 /\ ColNames(result.df) =
                       SummaryColumns(args.base_col) \o <<args.base_col \o <<p.name>>>>
                 /\ result.df =
                       Reorder(calculate_grouped_returns(df_input,
                                                         args.base_col \o <<p.name>>,
                                                         args.base_col, p.bucket),
                               ColNames(result.df))
        /\ (\A p \in AveragingPeriods : ~InAnyCase(args.avg_period, p.word)) =>
              /\ result.kind = "error"
              /\ result.exc = "ValueError"

\* C19 witness: 'QUARTERLY' on three rows of two quarters has returned the
\* column DailyReturns-averaged-Quarterly with a return that is not null.
C19_Witness ==
    /\ AveragedDone
    /\ args.avg_period = <<"Q", "U", "A", "R", "T", "E", "R", "L", "Y">>
    /\ Col(df_input, <<"Date">>) = <<20200130, 20200131, 20200401>>
    /\ result.kind = "ok"
    /\ HasCol(result.df, <<"DailyReturns", "-averaged-Quarterly">>)
    /\ \E i \in 1..NRows(result.df) :
          ~IsNull(Col(result.df, <<"DailyReturns", "-averaged-Quarterly">>)[i])

\* ------------------------------------------------------------------------
\* Properties of the batches of StockData.add and StockData.update.
\* ------------------------------------------------------------------------

\* The stock of label had a folder in the library before the call.
WasInLibrary(label) == args.before[Lower(label)].exists

\* The folder of the stock of label is as it was before the call.
Untouched(label) == files[Lower(label)] = args.before[Lower(label)]

\* The folder of the stock of label holds the provider's whole history.
WasAdded(label) ==
    files[Lower(label)] = Saved(add_columns_on_import(History(Lower(label), 0, today)))

\* The folder of the stock of label holds its earlier data and the
\* provider's rows since its last date.
WasUpdated(label) ==
    files[Lower(label)] = Updated(args.before[Lower(label)], label, today)

BatchHolds(labels) ==
    \A k \in 1..Len(labels) :
        /\ op = "add" =>
              IF WasInLibrary(labels[k]) THEN Untouched(labels[k])
              ELSE WasAdded(labels[k])
        /\ op = "update" =>
              IF WasInLibrary(labels[k]) THEN WasUpdated(labels[k])
              ELSE Untouched(labels[k])

\* No label is twice in the batch.
DistinctLabels(labels) ==
    \A j, k \in 1..Len(labels) : j # k => labels[j] # labels[k]

\* C20: in a batch add or update (no label twice), a label whose stock is
\* already in the library (add) or not in the library (update) leaves the
\* stored data as it was, and every other label of the batch, before and
\* after it, is processed: added, or updated.
C20_BatchIsolation ==
    (pc = "done" /\ op \in {"add", "update"} /\ DistinctLabels(args.labels))
        => BatchHolds(args.labels)

\* With the labels spelled as the folders of the library, the batches
\* behave as C20 says.
C20_FolderLabels ==
    (/\ pc = "done"
     /\ op \in {"add", "update"}
     /\ DistinctLabels(args.labels)
     /\ \A k \in 1..Len(args.labels) : args.labels[k] \in Folders)
        => BatchHolds(args.labels)

\* add(['AA', 'bb']) on the second trading day, on a library that held aa
\* since the first: the folder aa was written again.
C20_Witness ==
    /\ pc = "done"
    /\ op = "add"
    /\ args.labels = <<"AA", "bb">>
    /\ today = 2
    /\ WasInLibrary("AA")
    /\ args.before["aa"].last_date = Market("aa")[1][1]
    /\ ~Untouched("AA")
    /\ WasAdded("AA")
    /\ ~WasInLibrary("bb")
    /\ WasAdded("bb")

\* ------------------------------------------------------------------------
\* Properties of add_and_update followed by load.
\* ------------------------------------------------------------------------

\* C21: after add_and_update(labels) and load() on a new StockData object,
\* from any library, every label of labels is a key of the loaded data, also
\* a label that had no folder when the object was constructed, so that
\* get_stock_price returns a price for it and the constructor of Portfolio
\* returns.
C21_AddedLabelsLoaded ==
    PortfolioReturned =>
        /\ \A e \in 1..Len(d_portfolio) :
              Lower(d_portfolio[e].sym) \in portfolio.sd.loaded
        /\ portfolio.kind = "ok"

\* Portfolio({'AA': ...}) has run on a library without the folder aa: the
\* folder was written by add, the loaded data have no key aa, and the
\* constructor has raised the KeyError of get_stock_price.
C21_Witness ==
    /\ PortfolioReturned
    /\ Len(d_portfolio) = 1
    /\ d_portfolio[1].sym = "AA"
    /\ files["aa"].exists
    /\ "aa" \notin portfolio.sd.dir_list
    /\ "aa" \notin portfolio.sd.loaded
    /\ portfolio.kind = "error"

\* ------------------------------------------------------------------------
\* Properties of StockData.add_moving_average.
\* ------------------------------------------------------------------------

MovingAverageDone == pc = "done" /\ op = "add_moving_average"

\* No data is loaded in the object of the call.
NothingLoaded == ~args.has_d_data \/ args.sd.loaded = {}

\* The labels requested, in the order of the call: those of the library
\* for None, the label, or the labels of the list.
Requested ==
    IF args.labels = PyNone THEN ListOf(args.sd.dir_list)
    ELSE IF args.labels.ty = "list"
         THEN [k \in 1..Len(args.labels.xs) |-> args.labels.xs[k].s]
         ELSE <<args.labels.s>>

\* labels is None, a str or a list of str.
LabelsTyped ==
    \/ args.labels = PyNone
    \/ args.labels.ty = "str"
    \/ /\ args.labels.ty = "list"
       /\ \A k \in 1..Len(args.labels.xs) : args.labels.xs[k].ty = "str"

\* The least window that the method accepts: rolling accepts the window 0,
\* ewm no span below 1.
LeastWindow == IF args.method = "ema" THEN 1 ELSE 0

\* windows is an int or a list of int, none below the least window.
WindowsAccepted ==
    \/ args.windows.ty = "int" /\ args.windows.n >= LeastWindow
    \/ /\ args.windows.ty = "list"
       /\ \A k \in 1..Len(args.windows.xs) :
             args.windows.xs[k].ty = "int" /\ args.windows.xs[k].n >= LeastWindow

\* The requested labels up to the first one that names no loaded table.
Reached ==
    {Requested[k] : k \in {k \in 1..Len(Requested) :
                              \A h \in 1..k : Requested[h] \in args.sd.loaded}}

\* The table of l with the columns of the method added.
WithAverages(l) ==
    IF args.method = "sma"
    THEN simple_moving_average(args.sd.d_data[l], args.column, args.windows).df
    ELSE exp_moving_average(args.sd.d_data[l], args.column, args.windows).df

\* C22 as claimed: add_moving_average raises, and leaves the loaded data of
\* every symbol unchanged, when no data is loaded, when windows is None, or
\* when method is neither 'sma' nor 'ema'; in every other call the table of
\* each requested label is replaced by the table with the SMA columns
\* (method 'sma') or the EMA columns (method 'ema') added.
C22_EveryOtherCall ==
    MovingAverageDone =>
        IF NothingLoaded \/ args.windows = PyNone \/ args.method \notin {"sma", "ema"}
        THEN /\ result.kind = "error"
             /\ result.sd.d_data = args.sd.d_data
        ELSE /\ result.kind = "ok"
             /\ LabelsTyped =>
                   \A k \in 1..Len(Requested) :
                       /\ Requested[k] \in args.sd.loaded
                       /\ result.sd.d_data[Requested[k]] = WithAverages(Requested[k])

\* C22, amended: add_moving_average raises, and leaves the loaded data of
\* every symbol unchanged, when no data is loaded, when windows is None,
\* when method is neither 'sma' nor 'ema', when labels is not None, a str or
\* a list of str, and, at least one label being requested, when windows is
\* not an int or a list of int of at least 1 ('ema') or 0 ('sma').
\* Otherwise it replaces the table of each requested label up to the first
\* one that names no loaded table by the table with the SMA or EMA columns
\* added, leaves the other tables, and raises when a requested label names
\* no loaded table.
C22_AddMovingAverage ==
    MovingAverageDone =>
        IF \/ NothingLoaded
           \/ args.windows = PyNone
           \/ args.method \notin {"sma", "ema"}
           \/ ~LabelsTyped
           \/ (Requested # <<>> /\ ~WindowsAccepted)
        THEN /\ result.kind = "error"
             /\ result.sd.d_data = args.sd.d_data
        ELSE /\ result.kind = "ok"
                    <=> \A k \in 1..Len(Requested) : Requested[k] \in args.sd.loaded
             /\ \A l \in Folders :
                   result.sd.d_data[l] =
                      IF l \in Reached THEN WithAverages(l) ELSE args.sd.d_data[l]

\* C22 witness: the method 'ema' with the windows [1, 2] on the loaded
\* tables aa and bb, of two rows each, has added EMA_1 and EMA_2 to both.
C22_Witness ==
    /\ MovingAverageDone
    /\ args.method = "ema"
    /\ args.labels = PyList(<<PyStr("aa"), PyStr("bb")>>)
    /\ args.windows = PyList(<<PyInt(1), PyInt(2)>>)
    /\ args.sd.loaded = {"aa", "bb"}
    /\ NRows(args.sd.d_data["aa"]) = 2
    /\ result.kind = "ok"
    /\ \A l \in {"aa", "bb"} :
          /\ HasCol(result.sd.d_data[l], MAName("EMA", 2, <<"Close">>, FALSE))
          /\ ~HasCol(args.sd.d_data[l], MAName("EMA", 2, <<"Close">>, FALSE))

\* ------------------------------------------------------------------------
\* The trade table against the summary table.
\* ------------------------------------------------------------------------

\* The rows of the trade table of sym, in table order.
RowsOfStock(sym) ==
    SelectSeq([i \in 1..NRows(portfolio.df_trades) |-> i],
              LAMBDA i : TradeCol("Stock")[i] = sym)

\* C23: for every symbol (the prices not being negative) the Holding of the
\* symbol's last row of the trade table is the Current Holding of its
\* summary row, and the sum of the Realized of its rows is, to two decimals,
\* the Realized Amount of its summary row.
C23_TablesAgree ==
    PortfolioDone =>
        \A e \in 1..Len(d_portfolio) :
            LET sym == d_portfolio[e].sym
                own == RowsOfStock(sym)
            IN  /\ own # <<>>
                /\ TradeCol("Holding")[own[Len(own)]] = SummaryOf(sym).CurrentHolding
                /\ Round2(RSum([k \in 1..Len(own) |-> TradeCol("Realized")[own[k]]]))
                      = SummaryOf(sym).RealizedAmount

\* C23 witness: two symbols, one bought 20 and sold 10 at 2.00; its last row
\* holds 10 and its rows realized 20, as its summary row says, and a row of
\* the other symbol stands before that last row.
C23_Witness ==
    /\ PortfolioDone
    /\ Len(d_portfolio) = 2
    /\ \E e \in 1..2 :
          LET own == RowsOfStock(d_portfolio[e].sym)
          IN  /\ d_portfolio[e].data = SubSeq(ExampleLedger, 1, 2)
              /\ TradeCol("Holding")[own[Len(own)]] = R(10)
              /\ SummaryOf(d_portfolio[e].sym).CurrentHolding = R(10)
              /\ SummaryOf(d_portfolio[e].sym).RealizedAmount = R(20)
              /\ \E j \in 1..own[Len(own)] : TradeCol("Stock")[j] # d_portfolio[e].sym

\* ------------------------------------------------------------------------
\* Properties of the stored series after add and updates.
\* ------------------------------------------------------------------------

\* The stored table of the folder l.
Stored(l) == files[l].data

StoredDates(l) == Col(Stored(l), <<"Date">>)

\* C24: after add and any number of updates the stored series of a symbol
\* has at most one row per Date; the row of the earlier last_date, fetched
\* again by the update, is not stored twice.
C24_OneRowPerDate ==
    pc = "session" =>
        \A l \in Folders :
            files[l].exists =>
                \A i, j \in 1..Len(StoredDates(l)) :
                    i # j => StoredDates(l)[i] # StoredDates(l)[j]

\* The folder aa, added on the second trading day and updated on the same
\* day, stores the row of that day twice.
C24_Witness ==
    /\ pc = "session"
    /\ op = "update"
    /\ today = 2
    /\ files["aa"].exists
    /\ StoredDates("aa") = <<Market("aa")[1][1], Market("aa")[2][1], Market("aa")[2][1]>>

\* The rows (indices) of the stored table of l in the bucket with key k of
\* the grouping columns group_cols.
StoredBucket(l, group_cols, k) == GroupRows(Stored(l), group_cols, k)

\* In every bucket of group_cols the stored table of l has exactly one value
\* of the column returns that is not null, on the last stored date of the
\* bucket, and it is (last close - first close) / first close over the
\* stored rows of the bucket.
MarkedPerBucket(l, group_cols, returns) ==
    \A i \in 1..NRows(Stored(l)) :
        LET rows == StoredBucket(l, group_cols, GroupKey(Stored(l), group_cols, i))
            close == Col(Stored(l), <<"Close">>)
            marked == SelectSeq(rows, LAMBDA r : ~IsNull(Col(Stored(l), returns)[r]))
        IN  /\ Len(marked) = 1
            /\ \A r \in Range(rows) : StoredDates(l)[r] <= StoredDates(l)[marked[1]]
            /\ Col(Stored(l), returns)[marked[1]] =
                  RDiv(RSub(close[rows[Len(rows)]], close[rows[1]]), close[rows[1]])

\* C25: after add and any number of updates, each calendar month (quarter,
\* year) of the stored series has exactly one MonthlyReturns
\* (QuarterlyReturns, AnnualReturns) that is not null, on the last stored
\* date of the month, equal to (last close - first close) / first close over
\* all stored rows of the month, also for the month of an update.
C25_BucketsMarked ==
    pc = "session" =>
        \A l \in Folders :
            files[l].exists =>
                /\ MarkedPerBucket(l, << <<"year">>, <<"month">> >>, <<"MonthlyReturns">>)
                /\ MarkedPerBucket(l, << <<"Q">> >>, <<"QuarterlyReturns">>)
                /\ MarkedPerBucket(l, << <<"year">> >>, <<"AnnualReturns">>)

\* The folder aa, added on the first trading day and updated on the second,
\* stores three rows of January 2020 with two MonthlyReturns that are not
\* null: that of the add on the first date and that of the update on the
\* second.
C25_Witness ==
    /\ pc = "session"
    /\ op = "update"
    /\ today = 2
    /\ files["aa"].exists
    /\ StoredDates("aa") = <<Market("aa")[1][1], Market("aa")[1][1], Market("aa")[2][1]>>
    /\ ~IsNull(Col(Stored("aa"), <<"MonthlyReturns">>)[1])
    /\ IsNull(Col(Stored("aa"), <<"MonthlyReturns">>)[2])
    /\ ~IsNull(Col(Stored("aa"), <<"MonthlyReturns">>)[3])

====
